---- MODULE Spec2Model ----
(***************************************************************************)
(* A model of the binate RSocket protocol engine: the stream-ID allocator  *)
(* (connection/stream_id.rs), the frame codec (frame/mod.rs,               *)
(* frame/visit.rs, frame/flags.rs, frame/codec/*.rs), payload chunking     *)
(* (payload.rs), the request counter (connection/counter.rs) and the       *)
(* socket machine (connection/socket.rs).                                  *)
(*                                                                         *)
(* The specifications share the variables:                                 *)
(*   SpecAlloc   sequential calls of next_stream_id on one allocator;      *)
(*   SpecConc    threads calling next_stream_id on one shared allocator,   *)
(*               one atomic operation per step;                            *)
(*   Spec        frames built by the public constructors, encoded,         *)
(*               decoded, and byte strings received from the peer;         *)
(*   SpecChunks  the PayloadChunks iterator;                               *)
(*   SpecSocket  fire_and_forget and metadata_push on the machine;         *)
(*   SpecCounter threads calling dec and add on one RequestCounter;        *)
(*   SpecMachine the status listener, the keepalive watchdog and close.    *)
(***************************************************************************)
EXTENDS Integers, Sequences, FiniteSets, TLC

VARIABLES
    role,       \* allocator: "client" or "server" ("none" outside the allocator specifications)
    start,      \* allocator: the value the AtomicI32 was constructed with
    counter,    \* allocator: StreamIdProvider.0, an i32
    store,      \* allocator: the keys of the DashMap passed to next_stream_id
    returned,   \* allocator: the IDs returned so far, in order of return
    pc,         \* SpecConc: per thread, its position inside next_stream_id
    sid,        \* SpecConc: per thread, the local variable sid
    got,        \* SpecConc: per thread, the IDs its calls returned
    attempts,   \* SpecConc: the number of fetch_add operations executed
    phase,      \* codec: "idle", "built", "encoded", "received", "decoded"
    frame,      \* codec: the frame built by a constructor
    wire,       \* codec: the bytes handed to Frame::decode
    origin,     \* codec: how wire was produced: "encode", "truncate", "peer"
    result,     \* codec: what Frame::decode returned
    original,   \* chunks: the payload that chunks() was called on
    chunks,     \* chunks: the PayloadChunks iterator
    yielded,    \* chunks: what the calls of next() returned, in order
    chunk_payload, \* socket: RSocketMachine.chunk_payload
    sent,       \* socket: the frames the last operation handed to the connection, in order
    call,       \* socket: the last operation of the machine and its result
    subscriptions, \* machine: the keys of RSocketMachine.subscriptions
    keepalive_timeout, \* machine: RSocketMachine.keepalive_timeout, in clock ticks
    keepalive_last_received, \* machine: RSocketMachine.keepalive_last_received
    now,        \* machine: the clock (Instant::now())
    watchdog,   \* machine: the keepalive watchdog task: its position and its wake-up time
    status,     \* machine: the status of the connection, and the last one its listener handled
    last_keepalive, \* machine: when the last KEEPALIVE frame arrived from the peer
    canceled,   \* machine: the streams whose consumer got a terminal CANCELED error
    count,      \* counter: RequestCounter.0, an i32
    initial,    \* counter: the u32 given to RequestCounter::new
    history     \* counter: the operations executed, in the order of their atomic steps

vars == <<role, start, counter, store, returned, pc, sid, got, attempts,
          phase, frame, wire, origin, result, original, chunks, yielded,
          chunk_payload, sent, call, subscriptions, keepalive_timeout,
          keepalive_last_received, now, watchdog, status, last_keepalive,
          canceled, count, initial, history>>

allocVars == <<role, start, counter, store, returned>>
concVars  == <<pc, sid, got, attempts>>
codecVars == <<phase, frame, wire, origin, result>>
chunkVars == <<original, chunks, yielded>>
socketVars == <<chunk_payload, sent, call>>
machineVars == <<subscriptions, keepalive_timeout, keepalive_last_received, now,
                 watchdog, status, last_keepalive, canceled>>
counterVars == <<count, initial, history>>

(***************************************************************************)
(* Bounds of the model.                                                    *)
(***************************************************************************)
MaxCalls       == 4   \* sequential calls of next_stream_id
NumThreads     == 3   \* threads of SpecConc: the main thread and the spawned ones
CallsPerThread == 2   \* calls of next_stream_id the main thread makes
MaxLen         == 1   \* longest metadata / data / token blob, in bytes
MaxBlob        == 3   \* longest metadata / data given to chunks(), in bytes
MaxChunkSize   == 2   \* largest chunk size
MaxSends       == 2   \* calls of fire_and_forget
MaxCounterOps  == 3   \* calls of dec and add on one RequestCounter
MaxTimeout     == 2   \* largest keepalive_timeout, in clock ticks
MaxTime        == 5   \* last clock tick

(***************************************************************************)
(* connection/stream_id.rs                                                 *)
(***************************************************************************)
STREAM_ID_MASK == 2147483647

I32_MAX == STREAM_ID_MASK
I32_MIN == (-STREAM_ID_MASK) - 1

\* AtomicI32::fetch_add(2) wraps around on overflow (two's complement).
WrappingAdd2(c) ==
    IF c > I32_MAX - 2 THEN I32_MIN + (c - (I32_MAX - 1)) ELSE c + 2

\* (c & STREAM_ID_MASK) as u32: clears the sign bit of the i32.
\* A mutant: the sign bit is kept, the value is reinterpreted as its magnitude.
MaskStreamIdAbs(c) == IF c >= 0 THEN c ELSE IF c = I32_MIN THEN 0 ELSE -c
MaskStreamId(c) == IF c >= 0 THEN c ELSE (c + I32_MAX) + 1

\* A mutant of the step: the addition saturates at i32::MAX instead of wrapping.
FetchAddStepSaturating(c) == IF c > I32_MAX - 2 THEN I32_MAX ELSE c + 2
\* A mutant of the step: the counter advances by 1.
FetchAddStepOne(c) == IF c = I32_MAX THEN I32_MIN ELSE c + 1
FetchAddStep(c) == WrappingAdd2(c)

\* A mutant of the loop test: the reserved map is not consulted.
StoreContainsNever(s, id) == FALSE
StoreContains(s, id) == id \in s

\* The loop of next_stream_id run to completion: fetch_add returns the previous
\* value, the masked value is tried against the store, and the loop repeats
\* while the store holds it.
RECURSIVE next_stream_id(_, _)
next_stream_id(c, s) ==
    LET id == MaskStreamId(c)
        c2 == FetchAddStep(c)
    IN  IF ~StoreContains(s, id)
        THEN [sid |-> id, counter |-> c2]
        ELSE next_stream_id(c2, s)

new_for_client == 1
new_for_server == 2

\* Counter values a client (odd) and a server (even) allocator holds: the
\* value after construction, and values shortly before the i32 and the 31-bit
\* wrap, which the allocator reaches after 2^30 - k calls.
ClientCounters == {new_for_client, I32_MAX - 2, I32_MAX, -3, -1}
ServerCounters == {new_for_server, I32_MAX - 3, I32_MAX - 1, -4, -2}

\* Keys the store may hold when next_stream_id is called.
ReservedIds == {1, 3, 4, 8}

NoThreads == [t \in {} |-> 0]

CodecIdle ==
    /\ phase = "idle"
    /\ frame = [type |-> "NONE"]
    /\ wire = <<>>
    /\ origin = "none"
    /\ result = [ok |-> FALSE, err |-> [kind |-> "NONE"]]

NoPayload == [metadata |-> [some |-> FALSE, val |-> <<>>],
              data |-> [some |-> FALSE, val |-> <<>>]]

ChunksIdle ==
    /\ original = NoPayload
    /\ chunks = [chunk_size |-> 1, metadata |-> NoPayload.metadata,
                 data |-> NoPayload.data]
    /\ yielded = <<>>

SocketIdle ==
    /\ chunk_payload = [some |-> FALSE, val |-> 0]
    /\ sent = <<>>
    /\ call = [made |-> FALSE]

MachineIdle ==
    /\ subscriptions = {}
    /\ keepalive_timeout = 0
    /\ keepalive_last_received = 0
    /\ now = 0
    /\ watchdog = [pc |-> "none", wake |-> 0]
    /\ status = [conn |-> "Unconnected", seen |-> "Unconnected"]
    /\ last_keepalive = 0
    /\ canceled = {}

CounterIdle ==
    /\ count = 0
    /\ initial = <<0, 0>>
    /\ history = <<>>

InitAlloc ==
    /\ role \in {"client", "server"}
    /\ start \in (IF role = "client" THEN ClientCounters ELSE ServerCounters)
    /\ counter = start
    /\ store \in SUBSET ReservedIds
    /\ returned = <<>>
    /\ pc = NoThreads /\ sid = NoThreads /\ got = NoThreads /\ attempts = 0
    /\ CodecIdle
    /\ ChunksIdle
    /\ SocketIdle
    /\ MachineIdle
    /\ CounterIdle

\* One call of next_stream_id, from entry to return.
NextStreamId ==
    /\ Len(returned) < MaxCalls
    /\ LET r == next_stream_id(counter, store)
       IN  /\ counter' = r.counter
           /\ returned' = Append(returned, r.sid)
    /\ UNCHANGED <<role, start, store>>
    /\ UNCHANGED concVars
    /\ UNCHANGED codecVars
    /\ UNCHANGED chunkVars
    /\ UNCHANGED socketVars
    /\ UNCHANGED machineVars
    /\ UNCHANGED counterVars

NextAlloc == NextStreamId

SpecAlloc == InitAlloc /\ [][NextAlloc]_vars

(***************************************************************************)
(* Claims about sequential allocation (SpecAlloc).                         *)
(***************************************************************************)
Fresh ==
    \/ role = "client" /\ start = new_for_client
    \/ role = "server" /\ start = new_for_server

\* The IDs of the caller's class, in the range the bounded run can reach.
ClassIds ==
    LET first == IF role = "client" THEN 1 ELSE 2
    IN  {first + 2 * k : k \in 0 .. (MaxCalls + Cardinality(ReservedIds))}

\* C3: on a fresh allocator with a fixed reserved map R, the i-th call returns
\* the i-th smallest ID of the caller's class (1, 3, 5, ... for a client,
\* 2, 4, 6, ... for a server) that is not a key of R: increasing, no gaps.
C3_SequenceSkipsReserved ==
    Fresh =>
        \A i \in 1 .. Len(returned) :
            /\ returned[i] \in ClassIds \ store
            /\ Cardinality({x \in ClassIds \ store : x < returned[i]}) = i - 1

C3_Witness ==
    /\ role = "client" /\ start = new_for_client
    /\ store = {3}
    /\ returned = <<1, 5, 7>>

\* C4: next_stream_id never returns 0, also after the counter wraps.
C4_NeverReturnsZero ==
    \A i \in 1 .. Len(returned) : returned[i] # 0

\* C5: a client allocator whose counter holds 2^31-1 (stored as i32::MAX or as
\* -1), with an empty reserved map, returns 2^31-1 and then 1.
C5_WrapsAroundOnOverflow ==
    (/\ role = "client"
     /\ start \in {I32_MAX, -1}
     /\ store = {}
     /\ Len(returned) >= 2)
        => /\ returned[1] = 2147483647
           /\ returned[2] = 1

C5_Witness ==
    /\ role = "client" /\ start = -1 /\ store = {}
    /\ Len(returned) = 2
    /\ counter = 3

\* C6: every ID a client allocator returns is odd and every ID a server
\* allocator returns is even, whatever the reserved map and across wrap-arounds.
C6_ParityClass ==
    \A i \in 1 .. Len(returned) :
        /\ role = "client" => returned[i] % 2 = 1
        /\ role = "server" => returned[i] % 2 = 0

C6_Witness ==
    /\ role = "server" /\ start = I32_MAX - 1
    /\ store # {}
    /\ Len(returned) >= 3
    /\ counter < 0

(***************************************************************************)
(* Concurrent callers of next_stream_id (SpecConc): one step per atomic    *)
(* operation, the fetch_add on the AtomicI32 and the contains_key on the   *)
(* DashMap.                                                                *)
(***************************************************************************)
Threads == 1 .. NumThreads

\* The calls each thread makes (assert_thread_safe): the spawned threads call
\* next_stream_id once each, the main thread calls it CallsPerThread times.
CallsOf(t) == IF t = 1 THEN CallsPerThread ELSE 1
TotalCalls == CallsPerThread + (NumThreads - 1)

\* Reserved maps of the concurrent runs (the loom test reserves 4 and 8).
ConcStores == {{}, {3}, {4, 8}}

InitConc ==
    /\ role \in {"client", "server"}
    /\ start \in (IF role = "client"
                  THEN {new_for_client, I32_MAX}
                  ELSE {new_for_server, I32_MAX - 1})
    /\ counter = start
    /\ store \in ConcStores
    /\ returned = <<>>
    /\ pc = [t \in Threads |-> "idle"]
    /\ sid = [t \in Threads |-> 0]
    /\ got = [t \in Threads |-> <<>>]
    /\ attempts = 0
    /\ CodecIdle
    /\ ChunksIdle
    /\ SocketIdle
    /\ MachineIdle
    /\ CounterIdle

\* sid = (self.0.fetch_add(2, Relaxed) & STREAM_ID_MASK) as u32, on entry to
\* the call or on a repeated iteration of the loop.
FetchAdd(t) ==
    /\ \/ pc[t] = "idle" /\ Len(got[t]) < CallsOf(t)
       \/ pc[t] = "retry"
    /\ sid' = [sid EXCEPT ![t] = MaskStreamId(counter)]
    /\ counter' = FetchAddStep(counter)
    /\ attempts' = attempts + 1
    /\ pc' = [pc EXCEPT ![t] = "loaded"]
    /\ UNCHANGED <<role, start, store, returned, got>>
    /\ UNCHANGED codecVars
    /\ UNCHANGED chunkVars
    /\ UNCHANGED socketVars
    /\ UNCHANGED machineVars
    /\ UNCHANGED counterVars

\* !store.contains_key(&sid): break, return sid.
CheckFree(t) ==
    /\ pc[t] = "loaded"
    /\ ~StoreContains(store, sid[t])
    /\ got' = [got EXCEPT ![t] = Append(@, sid[t])]
    /\ pc' = [pc EXCEPT ![t] = "idle"]
    /\ UNCHANGED <<role, start, counter, store, returned, sid, attempts>>
    /\ UNCHANGED codecVars
    /\ UNCHANGED chunkVars
    /\ UNCHANGED socketVars
    /\ UNCHANGED machineVars
    /\ UNCHANGED counterVars

\* store.contains_key(&sid): the loop repeats.
CheckTaken(t) ==
    /\ pc[t] = "loaded"
    /\ StoreContains(store, sid[t])
    /\ pc' = [pc EXCEPT ![t] = "retry"]
    /\ UNCHANGED <<role, start, counter, store, returned, sid, got, attempts>>
    /\ UNCHANGED codecVars
    /\ UNCHANGED chunkVars
    /\ UNCHANGED socketVars
    /\ UNCHANGED machineVars
    /\ UNCHANGED counterVars

NextConc ==
    \E t \in Threads :
        \/ FetchAdd(t)
        \/ CheckFree(t)
        \/ CheckTaken(t)

SpecConc == InitConc /\ [][NextConc]_vars

\* C7: the IDs returned to concurrent callers of one shared allocator are
\* pairwise distinct, under every interleaving.
C7_ConcurrentIdsDistinct ==
    \A t, u \in Threads :
        \A i \in 1 .. Len(got[t]) :
            \A j \in 1 .. Len(got[u]) :
                (t # u \/ i # j) => got[t][i] # got[u][j]

C7_Witness ==
    /\ \A t \in Threads : Len(got[t]) = CallsOf(t) /\ pc[t] = "idle"
    /\ attempts > TotalCalls
    /\ store = {4, 8}

\* The counter after n fetch_add operations on an allocator constructed with c.
RECURSIVE AdvancedBy(_, _)
AdvancedBy(c, n) == IF n = 0 THEN c ELSE AdvancedBy(WrappingAdd2(c), n - 1)

\* The counter after n calls made one after the other by a single thread.
RECURSIVE SequentialCounter(_, _, _)
SequentialCounter(c, s, n) ==
    IF n = 0 THEN c ELSE SequentialCounter(next_stream_id(c, s).counter, s, n - 1)

AllCallsDone == \A t \in Threads : Len(got[t]) = CallsOf(t) /\ pc[t] = "idle"

\* The reserved IDs the finished calls fetched and skipped.
SkippedIds ==
    {id \in store : \E i \in 0 .. (attempts - 1) : MaskStreamId(AdvancedBy(start, i)) = id}

\* C23: every fetch_add inside next_stream_id advances the shared counter by
\* exactly 2 and none is lost; once all concurrent calls have finished, the
\* counter is the initial value plus 2 * (calls + reserved IDs skipped), the
\* value a single thread making the same calls leaves, so the next ID does not
\* depend on the interleaving (server, reserved {4, 8}, four calls: 14).
C23_NoLostUpdate ==
    /\ counter = AdvancedBy(start, attempts)
    /\ AllCallsDone =>
        /\ attempts = TotalCalls + Cardinality(SkippedIds)
        /\ counter = SequentialCounter(start, store, TotalCalls)
        /\ (start = new_for_server /\ store = {4, 8} /\ TotalCalls = 4) =>
               next_stream_id(counter, store).sid = 14

C23_Witness ==
    /\ AllCallsDone
    /\ NumThreads = 3 /\ TotalCalls = 4
    /\ role = "server" /\ start = new_for_server /\ store = {4, 8}
    /\ attempts = 6
    /\ \A t \in Threads : got[t] # <<>>

(***************************************************************************)
(* Bytes and integers on the wire.  A byte string is a sequence of values  *)
(* in 0..255.  An unsigned integer wider than 16 bits (u32, u64) is the    *)
(* sequence of its 16-bit words, most significant first, so that the full  *)
(* range of the type is kept: <<hi, lo>> is hi * 2^16 + lo.                *)
(***************************************************************************)
None == [some |-> FALSE, val |-> <<>>]
Some(b) == [some |-> TRUE, val |-> b]

Take(buf, n) == SubSeq(buf, 1, n)
Drop(buf, n) == SubSeq(buf, n + 1, Len(buf))

\* BufMut::put_u8 / put_u16 / put_u32 / put_u64: big-endian.
put_u8(x) == <<x>>
put_u16(x) == <<x \div 256, x % 256>>
RECURSIVE put_words(_)
put_words(ws) ==
    IF ws = <<>> THEN <<>> ELSE put_u16(Head(ws)) \o put_words(Tail(ws))

\* Buf::get_u16 / get_u32 / get_u64 on a buffer that holds enough bytes.
get_u16(buf) == buf[1] * 256 + buf[2]
get_words(buf, n) == [i \in 1 .. n |-> buf[2 * i - 1] * 256 + buf[2 * i]]

\* x & MAX_U31, x & MAX_U63: the top bit of the most significant word is cleared.
\* A mutant: the mask is left out.
MaskTopBitNone(ws) == ws
MaskTopBit(ws) == [ws EXCEPT ![1] = @ % 32768]

IsZero(ws) == \A i \in 1 .. Len(ws) : ws[i] = 0

\* Bitwise operations on u16 values.
RECURSIVE BitAnd(_, _)
BitAnd(a, b) ==
    IF a = 0 \/ b = 0 THEN 0
    ELSE (IF a % 2 = 1 /\ b % 2 = 1 THEN 1 ELSE 0) + 2 * BitAnd(a \div 2, b \div 2)

RECURSIVE BitOr(_, _)
BitOr(a, b) ==
    IF a = 0 THEN b
    ELSE IF b = 0 THEN a
    ELSE (IF a % 2 = 1 \/ b % 2 = 1 THEN 1 ELSE 0) + 2 * BitOr(a \div 2, b \div 2)

(***************************************************************************)
(* frame/flags.rs                                                          *)
(***************************************************************************)
IGNORE   == 256
METADATA == 128
FOLLOWS  == 64
RESUME   == 64
RESPOND  == 64
COMPLETE == 32
LEASE    == 32
NEXT     == 16

FlagsEmpty == 0
FlagsAll ==
    BitOr(IGNORE, BitOr(METADATA, BitOr(FOLLOWS, BitOr(RESUME,
        BitOr(RESPOND, BitOr(COMPLETE, BitOr(LEASE, NEXT)))))))

FlagsContains(flags, f) == BitAnd(flags, f) = f
from_bits_truncate(bits) == BitAnd(bits, FlagsAll)

\* FrameType::from_bits: the frame type of the higher 6 bits, if recognised.
\* A mutant: an unrecognised value is taken for EXT.
FrameTypeFromBitsLenient(bits) ==
    LET v == bits \div 1024
    IN  CASE v = 1 -> Some("SETUP")
          [] v = 2 -> Some("LEASE")
          [] v = 3 -> Some("KEEPALIVE")
          [] v = 4 -> Some("REQUEST_RESPONSE")
          [] v = 5 -> Some("REQUEST_FNF")
          [] v = 6 -> Some("REQUEST_STREAM")
          [] v = 7 -> Some("REQUEST_CHANNEL")
          [] v = 8 -> Some("REQUEST_N")
          [] v = 9 -> Some("CANCEL")
          [] v = 10 -> Some("PAYLOAD")
          [] v = 11 -> Some("ERROR")
          [] v = 12 -> Some("METADATA_PUSH")
          [] v = 13 -> Some("RESUME")
          [] v = 14 -> Some("RESUME_OK")
          [] OTHER -> Some("EXT")
FrameTypeFromBits(bits) ==
    LET v == bits \div 1024
    IN  CASE v = 1 -> Some("SETUP")
          [] v = 2 -> Some("LEASE")
          [] v = 3 -> Some("KEEPALIVE")
          [] v = 4 -> Some("REQUEST_RESPONSE")
          [] v = 5 -> Some("REQUEST_FNF")
          [] v = 6 -> Some("REQUEST_STREAM")
          [] v = 7 -> Some("REQUEST_CHANNEL")
          [] v = 8 -> Some("REQUEST_N")
          [] v = 9 -> Some("CANCEL")
          [] v = 10 -> Some("PAYLOAD")
          [] v = 11 -> Some("ERROR")
          [] v = 12 -> Some("METADATA_PUSH")
          [] v = 13 -> Some("RESUME")
          [] v = 14 -> Some("RESUME_OK")
          [] v = 63 -> Some("EXT")
          [] OTHER -> None

\* FrameType::bits: the raw value in the higher 6 bits of a u16.
FrameTypeBits(ft) ==
    1024 * (CASE ft = "SETUP" -> 1
              [] ft = "LEASE" -> 2
              [] ft = "KEEPALIVE" -> 3
              [] ft = "REQUEST_RESPONSE" -> 4
              [] ft = "REQUEST_FNF" -> 5
              [] ft = "REQUEST_STREAM" -> 6
              [] ft = "REQUEST_CHANNEL" -> 7
              [] ft = "REQUEST_N" -> 8
              [] ft = "CANCEL" -> 9
              [] ft = "PAYLOAD" -> 10
              [] ft = "ERROR" -> 11
              [] ft = "METADATA_PUSH" -> 12
              [] ft = "RESUME" -> 13
              [] ft = "RESUME_OK" -> 14
              [] ft = "EXT" -> 63)

(***************************************************************************)
(* frame/decode.rs: DecodeError.  A panic is an outcome of its own.        *)
(***************************************************************************)
Ok(v, rest) == [ok |-> TRUE, val |-> v, rest |-> rest]
Err(e) == [ok |-> FALSE, err |-> e]

\* The ? operator: an Err is returned at once, an Ok's value and the advanced
\* buffer are handed on.
Bind(r, F(_, _)) == IF r.ok THEN F(r.val, r.rest) ELSE r

InComplete == [kind |-> "InComplete"]
UnrecognizedFrameType(ft) == [kind |-> "UnrecognizedFrameType", value |-> ft]
InvalidStreamId(expected, found) ==
    [kind |-> "InvalidStreamId", expected |-> expected, found |-> found]
\* Buf::get_* and copy_to_bytes panic when the buffer holds too few bytes.
PanicBufferUnderflow == [kind |-> "PanicBufferUnderflow"]
\* unimplemented!()
PanicUnimplemented == [kind |-> "PanicUnimplemented"]

(***************************************************************************)
(* frame/visit.rs                                                          *)
(***************************************************************************)
\* incomplete_if_less_than!(buf, len): TRUE when the macro returns Err(InComplete).
\* A mutant: the comparison is off by one.
incomplete_if_less_than_off_by_one(buf, len) == Len(buf) + 1 < len
incomplete_if_less_than(buf, len) == Len(buf) < len

eat_stream_id(buf) ==
    IF incomplete_if_less_than(buf, 4) THEN Err(InComplete)
    ELSE IF Len(buf) < 4 THEN Err(PanicBufferUnderflow)
    ELSE Ok(MaskTopBit(get_words(buf, 2)), Drop(buf, 4))

\* Ok's value is <<frame_type, flags>>.
eat_flags(buf) ==
    IF incomplete_if_less_than(buf, 2) THEN Err(InComplete)
    ELSE IF Len(buf) < 2 THEN Err(PanicBufferUnderflow)
    ELSE LET flags == get_u16(buf)
             ft == flags \div 1024
             frame_type == FrameTypeFromBits(flags)
         IN  IF ~frame_type.some THEN Err(UnrecognizedFrameType(ft))
             ELSE Ok(<<frame_type.val, from_bits_truncate(flags)>>, Drop(buf, 2))

eat_version(buf) ==
    IF incomplete_if_less_than(buf, 4) THEN Err(InComplete)
    ELSE IF Len(buf) < 4 THEN Err(PanicBufferUnderflow)
    ELSE Ok(get_words(buf, 2), Drop(buf, 4))

\* The macro asks for 2 bytes although 1 is read.
eat_u8(buf) ==
    IF incomplete_if_less_than(buf, 2) THEN Err(InComplete)
    ELSE IF Len(buf) < 1 THEN Err(PanicBufferUnderflow)
    ELSE Ok(buf[1], Drop(buf, 1))

eat_u16(buf) ==
    IF incomplete_if_less_than(buf, 2) THEN Err(InComplete)
    ELSE IF Len(buf) < 2 THEN Err(PanicBufferUnderflow)
    ELSE Ok(get_u16(buf), Drop(buf, 2))

\* U24(high, low); into_usize is (high << 16) | low.
eat_u24(buf) ==
    Bind(eat_u8(buf), LAMBDA high, b1 :
    Bind(eat_u16(b1), LAMBDA low, b2 :
    Ok(<<high, low>>, b2)))

U24_into_usize(u) == u[1] * 65536 + u[2]
U24_from_usize(val) == <<(val \div 65536) % 256, val % 65536>>

eat_u31(buf) ==
    IF incomplete_if_less_than(buf, 4) THEN Err(InComplete)
    ELSE IF Len(buf) < 4 THEN Err(PanicBufferUnderflow)
    ELSE Ok(MaskTopBit(get_words(buf, 2)), Drop(buf, 4))

eat_u32(buf) ==
    IF incomplete_if_less_than(buf, 4) THEN Err(InComplete)
    ELSE IF Len(buf) < 4 THEN Err(PanicBufferUnderflow)
    ELSE Ok(get_words(buf, 2), Drop(buf, 4))

eat_u63(buf) ==
    IF incomplete_if_less_than(buf, 8) THEN Err(InComplete)
    ELSE IF Len(buf) < 8 THEN Err(PanicBufferUnderflow)
    ELSE Ok(MaskTopBit(get_words(buf, 4)), Drop(buf, 8))

eat_bytes(buf, len) ==
    IF incomplete_if_less_than(buf, len) THEN Err(InComplete)
    ELSE IF Len(buf) < len THEN Err(PanicBufferUnderflow)
    ELSE Ok(Take(buf, len), Drop(buf, len))

\* match buf.remaining() { 0 => None, len => Some(eat_bytes(buf, len)?) }
eat_remaining(buf) ==
    IF Len(buf) = 0 THEN Ok(None, buf)
    ELSE Bind(eat_bytes(buf, Len(buf)), LAMBDA b, b1 : Ok(Some(b), b1))

Payload_new(metadata, data) == [metadata |-> metadata, data |-> data]

\* let metadata_len = if can_have_data { eat_u24(buf)?.into_usize() } else { 0 }
eat_metadata_len(buf, can_have_data) ==
    IF can_have_data
    THEN Bind(eat_u24(buf), LAMBDA u, b1 : Ok(U24_into_usize(u), b1))
    ELSE Ok(0, buf)

\* let metadata = if metadata_len > 0 { Some(eat_bytes(buf, metadata_len)?) } else { None }
eat_metadata(buf, metadata_len) ==
    IF metadata_len > 0
    THEN Bind(eat_bytes(buf, metadata_len), LAMBDA m, b1 : Ok(Some(m), b1))
    ELSE Ok(None, buf)

eat_payload(buf, can_have_data) ==
    Bind(eat_metadata_len(buf, can_have_data), LAMBDA metadata_len, b1 :
    Bind(eat_metadata(b1, metadata_len), LAMBDA metadata, b2 :
    Bind(eat_remaining(b2), LAMBDA data, b3 :
    Ok(Payload_new(metadata, data), b3))))

eat_resume_token(buf, flags) ==
    IF FlagsContains(flags, RESUME)
    THEN Bind(eat_u16(buf), LAMBDA token_len, b1 :
         Bind(eat_bytes(b1, token_len), LAMBDA token, b2 :
         Ok(Some(token), b2)))
    ELSE Ok(None, buf)

(***************************************************************************)
(* frame/payload.rs                                                        *)
(***************************************************************************)
Payload_default == Payload_new(None, None)

OptLen(o) == IF o.some THEN Len(o.val) ELSE 0
OptBytes(o) == IF o.some THEN o.val ELSE <<>>

Payload_has_metadata(p) == p.metadata.some
Payload_len(p) == OptLen(p.metadata) + OptLen(p.data)
\* Metadata is always put before data.
Payload_encode(p) == OptBytes(p.metadata) \o OptBytes(p.data)

\* U24::from_usize(payload.metadata().map(|v| v.len()).unwrap_or_default()),
\* then put_u8(u24.0), put_u16(u24.1).
put_metadata_len(p) ==
    LET u24 == U24_from_usize(OptLen(p.metadata))
    IN  put_u8(u24[1]) \o put_u16(u24[2])

(***************************************************************************)
(* frame/version.rs, mimetype.rs, consts.rs                                *)
(***************************************************************************)
Version_new(major, minor) == <<major, minor>>
Version_default == Version_new(1, 0)
Version_encode(v) == put_u16(v[1]) \o put_u16(v[2])

\* "application/binary"
DEFAULT_MIMETYPE ==
    <<97, 112, 112, 108, 105, 99, 97, 116, 105, 111, 110, 47, 98, 105, 110, 97, 114, 121>>

\* Duration::from_secs(30) and from_secs(60), as_millis() as u32.
DEFAULT_KEEPALIVE_INTERVAL == <<0, 30000>>
DEFAULT_KEEPALIVE_TIMEOUT == <<0, 60000>>

(***************************************************************************)
(* frame/codec/setup.rs                                                    *)
(***************************************************************************)
SetupFrameBuilder_default ==
    [type |-> "SETUP",
     flags |-> FlagsEmpty,
     version |-> Version_default,
     keepalive_interval |-> DEFAULT_KEEPALIVE_INTERVAL,
     keepalive_timeout |-> DEFAULT_KEEPALIVE_TIMEOUT,
     resume_token |-> None,
     metadata_mimetype |-> DEFAULT_MIMETYPE,
     data_mimetype |-> DEFAULT_MIMETYPE,
     payload |-> Payload_default]

set_resume_flag(b) == [b EXCEPT !.flags = BitOr(@, RESUME)]
set_lease_flag(b) == [b EXCEPT !.flags = BitOr(@, LEASE)]
set_resume_token(b, token) ==
    [b EXCEPT !.resume_token = Some(token), !.flags = BitOr(@, RESUME)]
\* assert!(mimetype.len() <= 256): a longer MIME type panics, no builder is returned.
mimetype_accepted(mimetype) == Len(mimetype) <= 256
set_metadata_mimetype(b, mimetype) == [b EXCEPT !.metadata_mimetype = mimetype]
set_data_mimetype(b, mimetype) == [b EXCEPT !.data_mimetype = mimetype]
SetupFrameBuilder_set_metadata(b, metadata) ==
    [b EXCEPT !.flags = BitOr(@, METADATA), !.payload.metadata = Some(metadata)]
SetupFrameBuilder_set_data(b, data) == [b EXCEPT !.payload.data = Some(data)]
\* build() copies every field of the builder into the frame.
SetupFrameBuilder_build(b) == b

SetupFrame_encode(f) ==
    put_words(<<0, 0>>)
    \o put_u16(BitOr(FrameTypeBits("SETUP"), f.flags))
    \o Version_encode(f.version)
    \o put_words(f.keepalive_interval)
    \o put_words(f.keepalive_timeout)
    \o (IF f.resume_token.some
        THEN put_u16(Len(f.resume_token.val) % 65536) \o f.resume_token.val
        ELSE <<>>)
    \o put_u8(Len(f.metadata_mimetype) % 256) \o f.metadata_mimetype
    \o put_u8(Len(f.data_mimetype) % 256) \o f.data_mimetype
    \o put_metadata_len(f.payload)
    \o Payload_encode(f.payload)

SetupFrame_len(f) ==
    20 + OptLen(f.resume_token)
       + 1 + Len(f.metadata_mimetype) + 1 + Len(f.data_mimetype)
       + 3 + Payload_len(f.payload)

SetupFrame_decode(buf, stream_id, flags) ==
    Bind(eat_version(buf), LAMBDA version, b1 :
    Bind(eat_u31(b1), LAMBDA keepalive, b2 :
    Bind(eat_u31(b2), LAMBDA lifetime, b3 :
    Bind(eat_resume_token(b3, flags), LAMBDA resume_token, b4 :
    Bind(eat_u8(b4), LAMBDA metadata_mimetype_len, b5 :
    Bind(eat_bytes(b5, metadata_mimetype_len), LAMBDA metadata_mimetype, b6 :
    Bind(eat_u8(b6), LAMBDA data_mimetype_len, b7 :
    Bind(eat_bytes(b7, data_mimetype_len), LAMBDA data_mimetype, b8 :
    Bind(eat_payload(b8, TRUE), LAMBDA payload, b9 :
    Ok([type |-> "SETUP",
        flags |-> flags,
        version |-> version,
        keepalive_interval |-> keepalive,
        keepalive_timeout |-> lifetime,
        resume_token |-> resume_token,
        metadata_mimetype |-> metadata_mimetype,
        data_mimetype |-> data_mimetype,
        payload |-> payload], b9))))))))))

(***************************************************************************)
(* frame/codec/error.rs                                                    *)
(***************************************************************************)
INVALID_SETUP     == <<0, 1>>
UNSUPPORTED_SETUP == <<0, 2>>
REJECTED_SETUP    == <<0, 3>>
REJECTED_RESUME   == <<0, 4>>
CONNECTION_ERROR  == <<0, 257>>
CONNECTION_CLOSE  == <<0, 258>>
APPLICATION_ERROR == <<0, 513>>
REJECTED          == <<0, 514>>
CANCELED          == <<0, 515>>
INVALID           == <<0, 516>>
MIN_APPLICATION_ERROR_CODE == <<0, 769>>
MAX_APPLICATION_ERROR_CODE == <<65535, 65534>>

ErrorFrame_new(stream_id, error_code, data) ==
    [type |-> "ERROR",
     stream_id |-> MaskTopBit(stream_id),
     code |-> MaskTopBit(error_code),
     data |-> data]

ErrorFrame_encode(f) ==
    put_words(f.stream_id)
    \o put_u16(FrameTypeBits("ERROR"))
    \o put_words(f.code)
    \o OptBytes(f.data)

ErrorFrame_len(f) == 10 + OptLen(f.data)

\* A mutant: every code is accepted on every stream ID.
validate_stream_id_lenient(stream_id, code) == Ok(TRUE, <<>>)
\* Ok(()) is Ok(TRUE, <<>>).
validate_stream_id(stream_id, code) ==
    IF code \in {INVALID_SETUP, UNSUPPORTED_SETUP, REJECTED_SETUP,
                 REJECTED_RESUME, CONNECTION_ERROR, CONNECTION_CLOSE}
    THEN IF ~IsZero(stream_id)
         THEN Err(InvalidStreamId("0", stream_id)) ELSE Ok(TRUE, <<>>)
    ELSE IF code \in {APPLICATION_ERROR, REJECTED, CANCELED, INVALID}
    THEN IF IsZero(stream_id)
         THEN Err(InvalidStreamId("> 0", stream_id)) ELSE Ok(TRUE, <<>>)
    ELSE Ok(TRUE, <<>>)

ErrorFrame_decode(buf, stream_id, flags) ==
    Bind(eat_u32(buf), LAMBDA code, b1 :
    Bind(validate_stream_id(stream_id, code), LAMBDA valid, b0 :
    Bind(eat_remaining(b1), LAMBDA data, b2 :
    Ok([type |-> "ERROR", stream_id |-> stream_id, code |-> code,
        data |-> data], b2))))

(***************************************************************************)
(* frame/codec/lease.rs                                                    *)
(***************************************************************************)
LeaseFrame_new(ttl, number_of_requests, metadata) ==
    [type |-> "LEASE", ttl |-> ttl, number_of_requests |-> number_of_requests,
     metadata |-> metadata]

LeaseFrame_encode(f) ==
    put_words(<<0, 0>>)
    \o (IF f.metadata.some
        THEN put_u16(BitOr(FrameTypeBits("LEASE"), METADATA))
        ELSE put_u16(FrameTypeBits("LEASE")))
    \o put_words(f.ttl)
    \o put_words(f.number_of_requests)
    \o OptBytes(f.metadata)

LeaseFrame_len(f) == 14 + OptLen(f.metadata)

LeaseFrame_decode(buf, stream_id, flags) ==
    IF ~IsZero(stream_id) THEN Err(InvalidStreamId("0", stream_id)) ELSE
    Bind(eat_u31(buf), LAMBDA ttl, b1 :
    Bind(eat_u31(b1), LAMBDA number_of_requests, b2 :
    Bind(eat_remaining(b2), LAMBDA metadata, b3 :
    Ok([type |-> "LEASE", ttl |-> ttl,
        number_of_requests |-> number_of_requests,
        metadata |-> metadata], b3))))

(***************************************************************************)
(* frame/codec/keepalive.rs                                                *)
(***************************************************************************)
KeepaliveFrame_new(last_received_position, data, respond) ==
    [type |-> "KEEPALIVE", respond |-> respond,
     last_received_position |-> MaskTopBit(last_received_position),
     data |-> data]

KeepaliveFrame_encode(f) ==
    put_words(<<0, 0>>)
    \o (IF f.respond
        THEN put_u16(BitOr(FrameTypeBits("KEEPALIVE"), RESPOND))
        ELSE put_u16(FrameTypeBits("KEEPALIVE")))
    \o put_words(f.last_received_position)
    \o OptBytes(f.data)

KeepaliveFrame_len(f) == 14 + OptLen(f.data)

KeepaliveFrame_decode(buf, stream_id, flags) ==
    IF ~IsZero(stream_id) THEN Err(InvalidStreamId("0", stream_id)) ELSE
    Bind(eat_u63(buf), LAMBDA last_received_position, b1 :
    Bind(eat_remaining(b1), LAMBDA data, b2 :
    Ok([type |-> "KEEPALIVE", respond |-> FlagsContains(flags, RESPOND),
        last_received_position |-> last_received_position,
        data |-> data], b2)))

(***************************************************************************)
(* frame/codec/request_response.rs                                         *)
(***************************************************************************)
RequestResponseFrame_new(stream_id, follows, payload) ==
    [type |-> "REQUEST_RESPONSE",
     stream_id |-> MaskTopBit(stream_id),
     flags |-> BitOr(IF follows THEN FOLLOWS ELSE FlagsEmpty,
                     IF Payload_has_metadata(payload) THEN METADATA ELSE FlagsEmpty),
     payload |-> payload]

RequestResponseFrame_encode(f) ==
    put_words(f.stream_id)
    \o put_u16(BitOr(FrameTypeBits("REQUEST_RESPONSE"), f.flags))
    \o put_metadata_len(f.payload)
    \o Payload_encode(f.payload)

RequestResponseFrame_len(f) == 9 + Payload_len(f.payload)

RequestResponseFrame_decode(buf, stream_id, flags) ==
    Bind(eat_payload(buf, TRUE), LAMBDA payload, b1 :
    Ok([type |-> "REQUEST_RESPONSE", stream_id |-> stream_id, flags |-> flags,
        payload |-> payload], b1))

(***************************************************************************)
(* frame/codec/request_fnf.rs                                              *)
(***************************************************************************)
RequestFnfFrame_new(stream_id, follows, payload) ==
    [type |-> "REQUEST_FNF",
     stream_id |-> MaskTopBit(stream_id),
     flags |-> BitOr(IF follows THEN FOLLOWS ELSE FlagsEmpty,
                     IF Payload_has_metadata(payload) THEN METADATA ELSE FlagsEmpty),
     payload |-> payload]

RequestFnfFrame_encode(f) ==
    put_words(f.stream_id)
    \o put_u16(BitOr(FrameTypeBits("REQUEST_FNF"), f.flags))
    \o put_metadata_len(f.payload)
    \o Payload_encode(f.payload)

RequestFnfFrame_len(f) == 9 + Payload_len(f.payload)

RequestFnfFrame_decode(buf, stream_id, flags) ==
    Bind(eat_payload(buf, TRUE), LAMBDA payload, b1 :
    Ok([type |-> "REQUEST_FNF", stream_id |-> stream_id, flags |-> flags,
        payload |-> payload], b1))

(***************************************************************************)
(* frame/codec/request_stream.rs                                           *)
(***************************************************************************)
RequestStreamFrame_new(stream_id, follows, initial_request_n, payload) ==
    [type |-> "REQUEST_STREAM",
     stream_id |-> MaskTopBit(stream_id),
     flags |-> BitOr(IF follows THEN FOLLOWS ELSE FlagsEmpty,
                     IF Payload_has_metadata(payload) THEN METADATA ELSE FlagsEmpty),
     initial_request_n |-> MaskTopBit(initial_request_n),
     payload |-> payload]

RequestStreamFrame_encode(f) ==
    put_words(f.stream_id)
    \o put_u16(BitOr(FrameTypeBits("REQUEST_STREAM"), f.flags))
    \o put_words(f.initial_request_n)
    \o put_metadata_len(f.payload)
    \o Payload_encode(f.payload)

RequestStreamFrame_len(f) == 13 + Payload_len(f.payload)

RequestStreamFrame_decode(buf, stream_id, flags) ==
    Bind(eat_u31(buf), LAMBDA initial_request_n, b1 :
    Bind(eat_payload(b1, TRUE), LAMBDA payload, b2 :
    Ok([type |-> "REQUEST_STREAM", stream_id |-> stream_id, flags |-> flags,
        initial_request_n |-> initial_request_n,
        payload |-> payload], b2)))

(***************************************************************************)
(* frame/codec/request_channel.rs                                          *)
(***************************************************************************)
\* The file is not part of the sources at hand: the frame is modelled after the
\* specification's wire layout, which gives REQUEST_CHANNEL the fields of
\* REQUEST_STREAM (initial_request_n, then the payload).
RequestChannelFrame_new(stream_id, follows, initial_request_n, payload) ==
    [type |-> "REQUEST_CHANNEL",
     stream_id |-> MaskTopBit(stream_id),
     flags |-> BitOr(IF follows THEN FOLLOWS ELSE FlagsEmpty,
                     IF Payload_has_metadata(payload) THEN METADATA ELSE FlagsEmpty),
     initial_request_n |-> MaskTopBit(initial_request_n),
     payload |-> payload]

RequestChannelFrame_encode(f) ==
    put_words(f.stream_id)
    \o put_u16(BitOr(FrameTypeBits("REQUEST_CHANNEL"), f.flags))
    \o put_words(f.initial_request_n)
    \o put_metadata_len(f.payload)
    \o Payload_encode(f.payload)

RequestChannelFrame_len(f) == 13 + Payload_len(f.payload)

RequestChannelFrame_decode(buf, stream_id, flags) ==
    Bind(eat_u31(buf), LAMBDA initial_request_n, b1 :
    Bind(eat_payload(b1, TRUE), LAMBDA payload, b2 :
    Ok([type |-> "REQUEST_CHANNEL", stream_id |-> stream_id, flags |-> flags,
        initial_request_n |-> initial_request_n,
        payload |-> payload], b2)))

(***************************************************************************)
(* frame/codec/request_n.rs                                                *)
(***************************************************************************)
RequestNFrame_new(stream_id, request_n) ==
    [type |-> "REQUEST_N",
     stream_id |-> MaskTopBit(stream_id),
     request_n |-> MaskTopBit(request_n)]

RequestNFrame_encode(f) ==
    put_words(f.stream_id)
    \o put_u16(FrameTypeBits("REQUEST_N"))
    \o put_words(f.request_n)

RequestNFrame_len(f) == 10

RequestNFrame_decode(buf, stream_id, flags) ==
    Bind(eat_u31(buf), LAMBDA request_n, b1 :
    Ok([type |-> "REQUEST_N", stream_id |-> stream_id,
        request_n |-> request_n], b1))

(***************************************************************************)
(* frame/codec/cancel.rs                                                   *)
(***************************************************************************)
CancelFrame_new(stream_id) ==
    [type |-> "CANCEL", stream_id |-> MaskTopBit(stream_id)]

CancelFrame_encode(f) ==
    put_words(f.stream_id) \o put_u16(FrameTypeBits("CANCEL"))

CancelFrame_len(f) == 6

CancelFrame_decode(buf, stream_id, flags) ==
    Ok([type |-> "CANCEL", stream_id |-> stream_id], buf)

(***************************************************************************)
(* frame/codec/payload.rs                                                  *)
(***************************************************************************)
PayloadFrame_new(stream_id, flags, payload) ==
    [type |-> "PAYLOAD",
     stream_id |-> MaskTopBit(stream_id),
     flags |-> BitOr(BitAnd(flags, BitOr(FOLLOWS, BitOr(COMPLETE, NEXT))),
                     IF Payload_has_metadata(payload) THEN METADATA ELSE FlagsEmpty),
     payload |-> payload]

PayloadFrame_encode(f) ==
    put_words(f.stream_id)
    \o put_u16(BitOr(FrameTypeBits("PAYLOAD"), f.flags))
    \o put_metadata_len(f.payload)
    \o Payload_encode(f.payload)

PayloadFrame_len(f) == 9 + Payload_len(f.payload)

PayloadFrame_decode(buf, stream_id, flags) ==
    Bind(eat_payload(buf, TRUE), LAMBDA payload, b1 :
    Ok([type |-> "PAYLOAD", stream_id |-> stream_id, flags |-> flags,
        payload |-> payload], b1))

(***************************************************************************)
(* frame/codec/metadata_push.rs                                            *)
(***************************************************************************)
MetadataPushFrame_new(metadata) ==
    [type |-> "METADATA_PUSH", metadata |-> metadata]

MetadataPushFrame_encode(f) ==
    put_words(<<0, 0>>)
    \o put_u16(BitOr(FrameTypeBits("METADATA_PUSH"), METADATA))
    \o f.metadata

MetadataPushFrame_len(f) == 6 + Len(f.metadata)

MetadataPushFrame_decode(buf, stream_id, flags) ==
    Bind(eat_bytes(buf, Len(buf)), LAMBDA metadata, b1 :
    Ok([type |-> "METADATA_PUSH", metadata |-> metadata], b1))

(***************************************************************************)
(* frame/codec/resume.rs                                                   *)
(***************************************************************************)
ResumeFrame_new(version, resume_token, last_received_server_position, first_available_client_position) ==
    [type |-> "RESUME",
     version |-> version,
     resume_token |-> resume_token,
     last_received_server_position |-> MaskTopBit(last_received_server_position),
     first_available_client_position |-> MaskTopBit(first_available_client_position)]

ResumeFrame_encode(f) ==
    put_words(<<0, 0>>)
    \o put_u16(FrameTypeBits("RESUME"))
    \o Version_encode(f.version)
    \o put_u16(Len(f.resume_token) % 65536)
    \o f.resume_token
    \o put_words(f.last_received_server_position)
    \o put_words(f.first_available_client_position)

ResumeFrame_len(f) == 12 + Len(f.resume_token) + 16

ResumeFrame_decode(buf, stream_id, flags) ==
    Bind(eat_version(buf), LAMBDA version, b1 :
    Bind(eat_u16(b1), LAMBDA token_len, b2 :
    Bind(eat_bytes(b2, token_len), LAMBDA resume_token, b3 :
    Bind(eat_u63(b3), LAMBDA last_received_server_position, b4 :
    Bind(eat_u63(b4), LAMBDA first_available_client_position, b5 :
    Ok([type |-> "RESUME",
        version |-> version,
        resume_token |-> resume_token,
        last_received_server_position |-> last_received_server_position,
        first_available_client_position |-> first_available_client_position],
       b5))))))

(***************************************************************************)
(* frame/codec/resume_ok.rs                                                *)
(***************************************************************************)
ResumeOkFrame_new(last_received_client_position) ==
    [type |-> "RESUME_OK",
     last_received_client_position |-> MaskTopBit(last_received_client_position)]

ResumeOkFrame_encode(f) ==
    put_words(<<0, 0>>)
    \o put_u16(FrameTypeBits("RESUME_OK"))
    \o put_words(f.last_received_client_position)

ResumeOkFrame_len(f) == 14

ResumeOkFrame_decode(buf, stream_id, flags) ==
    Bind(eat_u63(buf), LAMBDA last_received_client_position, b1 :
    Ok([type |-> "RESUME_OK",
        last_received_client_position |-> last_received_client_position], b1))

(***************************************************************************)
(* frame/mod.rs                                                            *)
(***************************************************************************)
Frame_encode(f) ==
    CASE f.type = "SETUP" -> SetupFrame_encode(f)
      [] f.type = "ERROR" -> ErrorFrame_encode(f)
      [] f.type = "LEASE" -> LeaseFrame_encode(f)
      [] f.type = "KEEPALIVE" -> KeepaliveFrame_encode(f)
      [] f.type = "REQUEST_RESPONSE" -> RequestResponseFrame_encode(f)
      [] f.type = "REQUEST_FNF" -> RequestFnfFrame_encode(f)
      [] f.type = "REQUEST_STREAM" -> RequestStreamFrame_encode(f)
      [] f.type = "REQUEST_CHANNEL" -> RequestChannelFrame_encode(f)
      [] f.type = "REQUEST_N" -> RequestNFrame_encode(f)
      [] f.type = "CANCEL" -> CancelFrame_encode(f)
      [] f.type = "PAYLOAD" -> PayloadFrame_encode(f)
      [] f.type = "METADATA_PUSH" -> MetadataPushFrame_encode(f)
      [] f.type = "RESUME" -> ResumeFrame_encode(f)
      [] f.type = "RESUME_OK" -> ResumeOkFrame_encode(f)

Frame_len(f) ==
    CASE f.type = "SETUP" -> SetupFrame_len(f)
      [] f.type = "ERROR" -> ErrorFrame_len(f)
      [] f.type = "LEASE" -> LeaseFrame_len(f)
      [] f.type = "KEEPALIVE" -> KeepaliveFrame_len(f)
      [] f.type = "REQUEST_RESPONSE" -> RequestResponseFrame_len(f)
      [] f.type = "REQUEST_FNF" -> RequestFnfFrame_len(f)
      [] f.type = "REQUEST_STREAM" -> RequestStreamFrame_len(f)
      [] f.type = "REQUEST_CHANNEL" -> RequestChannelFrame_len(f)
      [] f.type = "REQUEST_N" -> RequestNFrame_len(f)
      [] f.type = "CANCEL" -> CancelFrame_len(f)
      [] f.type = "PAYLOAD" -> PayloadFrame_len(f)
      [] f.type = "METADATA_PUSH" -> MetadataPushFrame_len(f)
      [] f.type = "RESUME" -> ResumeFrame_len(f)
      [] f.type = "RESUME_OK" -> ResumeOkFrame_len(f)

\* The frame types that pertain to the connection (frame/mod.rs:117-122).
\* A mutant: METADATA_PUSH, RESUME and RESUME_OK are forgotten.
ConnectionFrameTypesSetupOnly == {"SETUP", "LEASE", "KEEPALIVE"}
ConnectionFrameTypes ==
    {"SETUP", "LEASE", "KEEPALIVE", "METADATA_PUSH", "RESUME", "RESUME_OK"}

\* The size of the header, below which decode refuses the input.
HeaderMin == 6

\* The second match of Frame::decode: the frame type's own decoder.
decode_by_type(frame_type, buf, stream_id, flags) ==
    CASE frame_type = "SETUP" -> SetupFrame_decode(buf, stream_id, flags)
      [] frame_type = "ERROR" -> ErrorFrame_decode(buf, stream_id, flags)
      [] frame_type = "LEASE" -> LeaseFrame_decode(buf, stream_id, flags)
      [] frame_type = "KEEPALIVE" -> KeepaliveFrame_decode(buf, stream_id, flags)
      [] frame_type = "REQUEST_RESPONSE" ->
             RequestResponseFrame_decode(buf, stream_id, flags)
      [] frame_type = "REQUEST_FNF" -> RequestFnfFrame_decode(buf, stream_id, flags)
      [] frame_type = "REQUEST_STREAM" ->
             RequestStreamFrame_decode(buf, stream_id, flags)
      [] frame_type = "REQUEST_CHANNEL" ->
             RequestChannelFrame_decode(buf, stream_id, flags)
      [] frame_type = "REQUEST_N" -> RequestNFrame_decode(buf, stream_id, flags)
      [] frame_type = "CANCEL" -> CancelFrame_decode(buf, stream_id, flags)
      [] frame_type = "PAYLOAD" -> PayloadFrame_decode(buf, stream_id, flags)
      [] frame_type = "METADATA_PUSH" ->
             MetadataPushFrame_decode(buf, stream_id, flags)
      [] frame_type = "RESUME" -> ResumeFrame_decode(buf, stream_id, flags)
      [] frame_type = "RESUME_OK" -> ResumeOkFrame_decode(buf, stream_id, flags)
      [] frame_type = "EXT" -> Err(PanicUnimplemented)

\* The first match of Frame::decode: frames that pertain to the connection
\* must use stream ID 0.
check_connection_stream_id(frame_type, stream_id) ==
    IF frame_type \in ConnectionFrameTypes /\ ~IsZero(stream_id)
    THEN Err(InvalidStreamId("0", stream_id))
    ELSE Ok(TRUE, <<>>)

\* Frame::decode.  Ok's value is the frame; the bytes left in the buffer are
\* not part of the result.
Frame_decode(buf) ==
    IF Len(buf) < HeaderMin THEN Err(InComplete) ELSE
    Bind(eat_stream_id(buf), LAMBDA stream_id, b1 :
    Bind(eat_flags(b1), LAMBDA tf, b2 :
    Bind(check_connection_stream_id(tf[1], stream_id), LAMBDA valid, b0 :
    Bind(decode_by_type(tf[1], b2, stream_id, tf[2]), LAMBDA f, b3 :
    [ok |-> TRUE, frame |-> f]))))

(***************************************************************************)
(* The codec at work (Spec): a frame is built by a public constructor or   *)
(* builder and encoded; the bytes, or a prefix of them, or bytes sent by   *)
(* the peer, are handed to Frame::decode.                                  *)
(***************************************************************************)
\* Blobs of up to MaxLen bytes, all bytes equal to b.
BlobsOf(b) == {[i \in 1 .. n |-> b] : n \in 0 .. MaxLen}
OptBlobsOf(b) == {None} \cup {Some(x) : x \in BlobsOf(b)}

\* Inputs of the constructors.  Metadata, data and token use different bytes
\* ('m', 'd', 't'), so that a byte string tells which field it came from.
MetadataVals == OptBlobsOf(109)
DataVals     == OptBlobsOf(100)
TokenVals    == OptBlobsOf(116)
Payloads     == {Payload_new(m, d) : m \in MetadataVals, d \in DataVals}
MimeTypes    == {DEFAULT_MIMETYPE, <<>>, <<97>>}
\* The metadata and data MIME types of one SETUP frame.
MimePairs    ==
    {<<mm, dm>> \in MimeTypes \X MimeTypes :
        mm = dm \/ (<<>> \in {mm, dm} /\ DEFAULT_MIMETYPE \notin {mm, dm})}
\* The last stream ID is above MAX_U31: a release build (debug assertions off)
\* lets it through to the mask of the constructor.
StreamIds    == {<<0, 0>>, <<0, 1>>, <<65535, 65535>>}
RequestNs    == {<<0, 1>>, <<32767, 65535>>}
Positions    == {<<0, 0, 0, 0>>, <<32767, 65535, 65535, 65535>>}
\* Application error codes: the two ends of the range, and the two codes on
\* either side of 2^31.
ApplicationErrorCodes ==
    {MIN_APPLICATION_ERROR_CODE, <<32767, 65535>>, <<32768, 0>>,
     MAX_APPLICATION_ERROR_CODE}
ErrorCodes   ==
    {INVALID_SETUP, UNSUPPORTED_SETUP, REJECTED_SETUP, REJECTED_RESUME,
     CONNECTION_ERROR, CONNECTION_CLOSE, APPLICATION_ERROR, REJECTED, CANCELED,
     INVALID, <<0, 0>>} \cup ApplicationErrorCodes
PayloadFlags == {FlagsEmpty, NEXT, COMPLETE, BitOr(FOLLOWS, NEXT),
                 BitOr(IGNORE, BitOr(COMPLETE, NEXT))}

NoResult == [ok |-> FALSE, err |-> [kind |-> "NONE"]]

InitCodec ==
    /\ role = "none" /\ start = 0 /\ counter = 0 /\ store = {}
    /\ returned = <<>>
    /\ pc = NoThreads /\ sid = NoThreads /\ got = NoThreads /\ attempts = 0
    /\ CodecIdle
    /\ ChunksIdle
    /\ SocketIdle
    /\ MachineIdle
    /\ CounterIdle

Built(f) ==
    /\ phase = "idle"
    /\ frame' = f
    /\ phase' = "built"
    /\ UNCHANGED <<wire, origin, result>>
    /\ UNCHANGED allocVars
    /\ UNCHANGED concVars
    /\ UNCHANGED chunkVars
    /\ UNCHANGED socketVars
    /\ UNCHANGED machineVars
    /\ UNCHANGED counterVars

NewSetup ==
    \E resume, lease \in BOOLEAN, token \in TokenVals,
       mime \in MimePairs, metadata \in MetadataVals, data \in DataVals :
        LET mm == mime[1]
            dm == mime[2]
            b0 == SetupFrameBuilder_default
            b1 == IF resume THEN set_resume_flag(b0) ELSE b0
            b2 == IF lease THEN set_lease_flag(b1) ELSE b1
            b3 == IF token.some THEN set_resume_token(b2, token.val) ELSE b2
            b4 == set_data_mimetype(set_metadata_mimetype(b3, mm), dm)
            b5 == IF metadata.some
                  THEN SetupFrameBuilder_set_metadata(b4, metadata.val) ELSE b4
            b6 == IF data.some THEN SetupFrameBuilder_set_data(b5, data.val) ELSE b5
        IN  Built(SetupFrameBuilder_build(b6))

\* MIME types at the limit of what the setters accept and one past it.
Filled(n) == [i \in 1 .. n |-> 97]
LongMimeTypes == {Filled(255), Filled(256), Filled(257)}

\* A SETUP frame with a metadata MIME type of the longest accepted lengths
\* (set_data_mimetype has the same assertion and encode the same cast).
NewSetupLongMime ==
    \E mm \in LongMimeTypes, dm \in {DEFAULT_MIMETYPE} :
        /\ mimetype_accepted(mm) /\ mimetype_accepted(dm)
        /\ Built(SetupFrameBuilder_build(
               set_data_mimetype(set_metadata_mimetype(SetupFrameBuilder_default, mm), dm)))

NewError ==
    \E stream_id \in StreamIds, code \in ErrorCodes, data \in DataVals :
        Built(ErrorFrame_new(stream_id, code, data))

NewLease ==
    \E ttl \in RequestNs, n \in RequestNs, metadata \in MetadataVals :
        Built(LeaseFrame_new(ttl, n, metadata))

NewKeepalive ==
    \E pos \in Positions, data \in DataVals, respond \in BOOLEAN :
        Built(KeepaliveFrame_new(pos, data, respond))

NewRequestResponse ==
    \E stream_id \in StreamIds, follows \in BOOLEAN, payload \in Payloads :
        Built(RequestResponseFrame_new(stream_id, follows, payload))

NewRequestFnf ==
    \E stream_id \in StreamIds, follows \in BOOLEAN, payload \in Payloads :
        Built(RequestFnfFrame_new(stream_id, follows, payload))

NewRequestStream ==
    \E stream_id \in StreamIds, follows \in BOOLEAN, n \in RequestNs,
       payload \in Payloads :
        Built(RequestStreamFrame_new(stream_id, follows, n, payload))

NewRequestChannel ==
    \E stream_id \in StreamIds, follows \in BOOLEAN, n \in RequestNs,
       payload \in Payloads :
        Built(RequestChannelFrame_new(stream_id, follows, n, payload))

NewRequestN ==
    \E stream_id \in StreamIds, n \in RequestNs :
        Built(RequestNFrame_new(stream_id, n))

NewCancel ==
    \E stream_id \in StreamIds : Built(CancelFrame_new(stream_id))

NewPayload ==
    \E stream_id \in StreamIds, flags \in PayloadFlags, payload \in Payloads :
        Built(PayloadFrame_new(stream_id, flags, payload))

NewMetadataPush ==
    \E metadata \in BlobsOf(109) : Built(MetadataPushFrame_new(metadata))

NewResume ==
    \E token \in BlobsOf(116), p1, p2 \in Positions :
        Built(ResumeFrame_new(Version_default, token, p1, p2))

NewResumeOk ==
    \E pos \in Positions : Built(ResumeOkFrame_new(pos))

\* Encode::encode into an empty BytesMut.
Encode ==
    /\ phase = "built"
    /\ wire' = Frame_encode(frame)
    /\ origin' = "encode"
    /\ phase' = "encoded"
    /\ UNCHANGED <<frame, result>>
    /\ UNCHANGED allocVars
    /\ UNCHANGED concVars
    /\ UNCHANGED chunkVars
    /\ UNCHANGED socketVars
    /\ UNCHANGED machineVars
    /\ UNCHANGED counterVars

\* The transport delivers only the first n bytes of the encoded frame.
Truncate ==
    /\ phase = "encoded"
    /\ \E n \in 0 .. (Len(wire) - 1) : wire' = Take(wire, n)
    /\ origin' = "truncate"
    /\ phase' = "received"
    /\ UNCHANGED <<frame, result>>
    /\ UNCHANGED allocVars
    /\ UNCHANGED concVars
    /\ UNCHANGED chunkVars
    /\ UNCHANGED socketVars
    /\ UNCHANGED machineVars
    /\ UNCHANGED counterVars

\* Bytes a peer may send: every 6-bit type value under two flag patterns, stream
\* ID words with and without the reserved top bit, over a few bodies; and
\* inputs shorter than a header.
Zeros(n) == [i \in 1 .. n |-> 0]
PeerStreamIds == {<<0, 0>>, <<0, 1>>, <<32768, 0>>, <<32768, 1>>, <<65535, 65535>>}
PeerTypeWords == {t * 1024 + fl : t \in 0 .. 63, fl \in {0, 1023}}
PeerBodies == {<<>>, Zeros(16), <<0, 0, 5, 109>>, put_words(MAX_APPLICATION_ERROR_CODE)}
PeerWires ==
    {put_words(s) \o put_u16(w) \o b :
        s \in PeerStreamIds, w \in PeerTypeWords, b \in PeerBodies}
    \cup {Zeros(n) : n \in 0 .. 5}

Receive ==
    /\ phase = "idle"
    /\ wire' \in PeerWires
    /\ origin' = "peer"
    /\ phase' = "received"
    /\ UNCHANGED <<frame, result>>
    /\ UNCHANGED allocVars
    /\ UNCHANGED concVars
    /\ UNCHANGED chunkVars
    /\ UNCHANGED socketVars
    /\ UNCHANGED machineVars
    /\ UNCHANGED counterVars

\* Frame::decode on the bytes at hand.
Decode ==
    /\ phase \in {"encoded", "received"}
    /\ result' = Frame_decode(wire)
    /\ phase' = "decoded"
    /\ UNCHANGED <<frame, wire, origin>>
    /\ UNCHANGED allocVars
    /\ UNCHANGED concVars
    /\ UNCHANGED chunkVars
    /\ UNCHANGED socketVars
    /\ UNCHANGED machineVars
    /\ UNCHANGED counterVars

\* The frame and the buffer are dropped.
Reset ==
    /\ phase = "decoded"
    /\ phase' = "idle"
    /\ frame' = [type |-> "NONE"]
    /\ wire' = <<>>
    /\ origin' = "none"
    /\ result' = NoResult
    /\ UNCHANGED allocVars
    /\ UNCHANGED concVars
    /\ UNCHANGED chunkVars
    /\ UNCHANGED socketVars
    /\ UNCHANGED machineVars
    /\ UNCHANGED counterVars

Next ==
    \/ NewSetup
    \/ NewSetupLongMime
    \/ NewError
    \/ NewLease
    \/ NewKeepalive
    \/ NewRequestResponse
    \/ NewRequestFnf
    \/ NewRequestStream
    \/ NewRequestChannel
    \/ NewRequestN
    \/ NewCancel
    \/ NewPayload
    \/ NewMetadataPush
    \/ NewResume
    \/ NewResumeOk
    \/ Encode
    \/ Truncate
    \/ Receive
    \/ Decode
    \/ Reset

Init == InitCodec

Spec == Init /\ [][Next]_vars

(***************************************************************************)
(* Properties of the codec, checked under Spec.                            *)
(***************************************************************************)
\* C1: for every frame built through the public constructors and builders,
\* Frame::decode applied to the bytes written by encode returns Ok of that
\* same frame.
C1_RoundTrip ==
    (phase = "decoded" /\ origin = "encode")
        => result = [ok |-> TRUE, frame |-> frame]

\* C2: for every frame built through the public constructors and builders,
\* the number of bytes written by encode equals len().
C2_EncodedLengthIsLen ==
    (phase = "encoded") => Len(wire) = Frame_len(frame)

\* The 6-bit frame type value and the masked stream ID words of a buffer that
\* holds a whole header.
WireTypeValue == wire[5] \div 4
WireStreamId == <<(wire[1] % 128) * 256 + wire[2], wire[3] * 256 + wire[4]>>

\* The bytes of a frame up to the end of its last fixed-size or length-prefixed
\* field, by the wire layout of each frame type.
RequiredLen(f) ==
    CASE f.type = "SETUP" ->
             18 + (IF f.resume_token.some THEN 2 + Len(f.resume_token.val) ELSE 0)
                + 1 + Len(f.metadata_mimetype) + 1 + Len(f.data_mimetype)
                + 3 + OptLen(f.payload.metadata)
      [] f.type = "ERROR" -> 10
      [] f.type = "LEASE" -> 14
      [] f.type = "KEEPALIVE" -> 14
      [] f.type \in {"REQUEST_RESPONSE", "REQUEST_FNF", "PAYLOAD"} ->
             9 + OptLen(f.payload.metadata)
      [] f.type \in {"REQUEST_STREAM", "REQUEST_CHANNEL"} ->
             13 + OptLen(f.payload.metadata)
      [] f.type = "REQUEST_N" -> 10
      [] f.type = "RESUME" -> 28 + Len(f.resume_token)
      [] f.type = "RESUME_OK" -> 14
      [] OTHER -> 6

\* The frame's RESUME flag says what its bytes hold: a SETUP frame has the flag
\* exactly when it has a token.
FlagMatchesToken(f) ==
    f.type = "SETUP" => (FlagsContains(f.flags, RESUME) <=> f.resume_token.some)

\* A peer buffer of a REQUEST_RESPONSE, REQUEST_FNF or PAYLOAD frame whose
\* 24-bit metadata length announces more bytes than remain.
AnnouncesTooMuch ==
    /\ Len(wire) >= 9
    /\ WireTypeValue \in {4, 5, 10}
    /\ wire[7] * 65536 + wire[8] * 256 + wire[9] > Len(wire) - 9

\* C8: Frame::decode returns Err(InComplete) when fewer than 6 bytes remain,
\* when the input is cut inside a fixed-size field or inside the bytes a
\* length prefix announces, and it never reads past the end of the input.
C8_IncompleteOnShortInput ==
    (phase = "decoded") =>
        /\ Len(wire) < 6 => result = Err(InComplete)
        /\ (origin = "truncate" /\ FlagMatchesToken(frame)
                /\ Len(wire) < RequiredLen(frame))
               => result = Err(InComplete)
        /\ (origin = "peer" /\ AnnouncesTooMuch) => result = Err(InComplete)
        /\ ~result.ok => result.err # PanicBufferUnderflow

\* A SETUP frame cut inside its resume token (the token length is read, the
\* token's byte is missing) has been refused as incomplete.
C8_Witness ==
    /\ phase = "decoded" /\ origin = "truncate"
    /\ frame.type = "SETUP" /\ FlagMatchesToken(frame)
    /\ frame.resume_token.some /\ Len(frame.resume_token.val) > 0
    /\ Len(wire) = 20
    /\ result = Err(InComplete)

\* The 15 frame type values of the protocol.
RecognizedTypeValues == (1 .. 14) \cup {63}

\* C9: decoding a header whose 6-bit type value is not one of the 15
\* recognised values fails with UnrecognizedFrameType carrying that value,
\* whatever the flag bits are.
C9_UnrecognizedFrameType ==
    (phase = "decoded" /\ Len(wire) >= 6
        /\ WireTypeValue \notin RecognizedTypeValues)
        => result = Err(UnrecognizedFrameType(WireTypeValue))

\* A header of type value 15 with all flag bits set has been refused.
C9_Witness ==
    /\ phase = "decoded" /\ Len(wire) >= 6
    /\ WireTypeValue = 15 /\ wire[5] % 4 = 3 /\ wire[6] = 255
    /\ result = Err(UnrecognizedFrameType(15))

\* The type values of SETUP, LEASE, KEEPALIVE, METADATA_PUSH, RESUME, RESUME_OK.
ConnectionTypeValues == {1, 2, 3, 12, 13, 14}

\* C10: decoding a SETUP, LEASE, KEEPALIVE, METADATA_PUSH, RESUME or RESUME_OK
\* frame whose masked stream ID is not 0 fails with InvalidStreamId reporting
\* the found stream ID, and no frame is returned.
C10_ConnectionFrameStreamId ==
    (phase = "decoded" /\ Len(wire) >= 6
        /\ WireTypeValue \in ConnectionTypeValues /\ ~IsZero(WireStreamId))
        => result = Err(InvalidStreamId("0", WireStreamId))

\* A RESUME_OK header with the reserved bit set and stream ID 1 has been
\* refused with the masked ID.
C10_Witness ==
    /\ phase = "decoded" /\ Len(wire) >= 6
    /\ WireTypeValue = 14 /\ wire[1] = 128 /\ WireStreamId = <<0, 1>>
    /\ result = Err(InvalidStreamId("0", <<0, 1>>))

\* The error code words of a buffer that holds an ERROR frame's code.
WireErrorCode == get_words(Drop(wire, 6), 2)
ConnectionErrorCodes ==
    {INVALID_SETUP, UNSUPPORTED_SETUP, REJECTED_SETUP, REJECTED_RESUME,
     CONNECTION_ERROR, CONNECTION_CLOSE}
StreamErrorCodes == {APPLICATION_ERROR, REJECTED, CANCELED, INVALID}

\* C11: decoding an ERROR frame fails with InvalidStreamId when its code is
\* connection-scoped and its stream ID is non-zero, and when its code is
\* stream-scoped and its stream ID is 0; every other combination of code and
\* stream ID is accepted.
C11_ErrorFrameStreamId ==
    (phase = "decoded" /\ Len(wire) >= 10 /\ WireTypeValue = 11) =>
        IF WireErrorCode \in ConnectionErrorCodes /\ ~IsZero(WireStreamId)
        THEN result = Err(InvalidStreamId("0", WireStreamId))
        ELSE IF WireErrorCode \in StreamErrorCodes /\ IsZero(WireStreamId)
        THEN result = Err(InvalidStreamId("> 0", WireStreamId))
        ELSE /\ result.ok
             /\ result.frame.type = "ERROR"
             /\ result.frame.stream_id = WireStreamId
             /\ result.frame.code = WireErrorCode

\* An ERROR frame with code CANCELED on stream 0 has been refused.
C11_Witness ==
    /\ phase = "decoded" /\ Len(wire) >= 10 /\ WireTypeValue = 11
    /\ WireErrorCode = CANCELED /\ IsZero(WireStreamId)
    /\ result = Err(InvalidStreamId("> 0", <<0, 0>>))

\* The type values of REQUEST_RESPONSE, REQUEST_FNF, REQUEST_STREAM, REQUEST_N,
\* CANCEL and PAYLOAD.  REQUEST_CHANNEL (7) is left out: its decoder is not
\* part of the sources at hand.
StreamTypeValues == {4, 5, 6, 8, 9, 10}
StreamFrameTypes ==
    {"REQUEST_RESPONSE", "REQUEST_FNF", "REQUEST_STREAM", "REQUEST_N", "CANCEL",
     "PAYLOAD"}

\* C12: decoding a stream-scoped frame whose stream ID is 0 fails with
\* InvalidStreamId (or with InComplete when the input is cut short), and
\* Frame::decode never returns a stream-scoped frame with stream ID 0.
C12_StreamFrameStreamId ==
    (phase = "decoded") =>
        /\ (Len(wire) >= 6 /\ WireTypeValue \in StreamTypeValues
                /\ IsZero(WireStreamId))
               => (~result.ok
                      /\ result.err.kind \in {"InvalidStreamId", "InComplete"})
        /\ (result.ok /\ result.frame.type \in StreamFrameTypes)
               => ~IsZero(result.frame.stream_id)

\* The variants of DecodeError.
DecodeErrorKinds == {"InComplete", "UnrecognizedFrameType", "InvalidStreamId"}

\* C13: Frame::decode is total: for every byte sequence it returns Ok(frame)
\* or Err(DecodeError) and never aborts; a header of type EXT produces an
\* error result.
C13_DecodeTotal ==
    (phase = "decoded") =>
        /\ result.ok \/ result.err.kind \in DecodeErrorKinds
        /\ (Len(wire) >= 6 /\ WireTypeValue = 63)
               => (~result.ok /\ result.err.kind \in DecodeErrorKinds)

\* The type code of each frame kind in the protocol's frame header.
TypeCode(t) ==
    CASE t = "SETUP" -> 1
      [] t = "LEASE" -> 2
      [] t = "KEEPALIVE" -> 3
      [] t = "REQUEST_RESPONSE" -> 4
      [] t = "REQUEST_FNF" -> 5
      [] t = "REQUEST_STREAM" -> 6
      [] t = "REQUEST_CHANNEL" -> 7
      [] t = "REQUEST_N" -> 8
      [] t = "CANCEL" -> 9
      [] t = "PAYLOAD" -> 10
      [] t = "ERROR" -> 11
      [] t = "METADATA_PUSH" -> 12
      [] t = "RESUME" -> 13
      [] t = "RESUME_OK" -> 14

\* C14: in the bytes written by encode for any frame built through the public
\* constructors, the top bit of the stream ID word is 0 and the top 6 bits of
\* the type+flags word equal the frame kind's type code, whatever flags are
\* set on the frame.
C14_HeaderLaws ==
    (phase = "encoded") =>
        /\ Len(wire) >= 6
        /\ wire[1] < 128
        /\ WireTypeValue = TypeCode(frame.type)

\* A REQUEST_STREAM frame with FOLLOWS and METADATA set, built from a stream
\* ID above MAX_U31, has been encoded.
C14_Witness ==
    /\ phase = "encoded" /\ frame.type = "REQUEST_STREAM"
    /\ FlagsContains(frame.flags, BitOr(FOLLOWS, METADATA))
    /\ frame.stream_id = <<32767, 65535>>
    /\ wire[1] = 127 /\ WireTypeValue = 6

\* The payload-carrying frame kinds whose decoders are part of the sources.
PayloadFrameTypes ==
    {"REQUEST_RESPONSE", "REQUEST_FNF", "REQUEST_STREAM", "PAYLOAD", "SETUP"}

\* The METADATA flag of a payload-carrying frame is set exactly when its
\* payload has metadata.
MetadataFlagIffMetadata(f) ==
    f.type \in PayloadFrameTypes
        => (FlagsContains(f.flags, METADATA) <=> Payload_has_metadata(f.payload))

\* C15: for every payload-carrying frame built through the public
\* constructors or returned by Frame::decode, the METADATA flag is set if and
\* only if the frame's payload has metadata present.
C15_MetadataFlag ==
    /\ (phase \in {"built", "encoded"}) => MetadataFlagIffMetadata(frame)
    /\ (phase = "decoded" /\ result.ok) => MetadataFlagIffMetadata(result.frame)

\* A PAYLOAD frame has at least one of NEXT and COMPLETE set.
NextOrComplete(f) ==
    f.type = "PAYLOAD"
        => (FlagsContains(f.flags, NEXT) \/ FlagsContains(f.flags, COMPLETE))

\* C16: every PAYLOAD frame that PayloadFrame::new builds or Frame::decode
\* returns has at least one of the NEXT and COMPLETE flags set.
C16_PayloadNextOrComplete ==
    /\ (phase \in {"built", "encoded"}) => NextOrComplete(frame)
    /\ (phase = "decoded" /\ result.ok) => NextOrComplete(result.frame)

(***************************************************************************)
(* payload.rs: Payload::chunks and the PayloadChunks iterator              *)
(* (SpecChunks).                                                           *)
(***************************************************************************)
\* Payload::chunks: the payload is split into its two components.
Payload_chunks(payload, chunk_size) ==
    [chunk_size |-> chunk_size, metadata |-> payload.metadata,
     data |-> payload.data]

\* ceil(a as f32 / b as f32) as usize.  The f32 arithmetic is exact on the
\* lengths of the model (below 2^24), where it is the integer ceiling.
CeilDivF32(a, b) == (a + b - 1) \div b

Max(a, b) == IF a >= b THEN a ELSE b

PayloadChunks_len(it) ==
    Max(CeilDivF32(OptLen(it.metadata), it.chunk_size),
        CeilDivF32(OptLen(it.data), it.chunk_size))

\* A mutant: the bytes after the first chunk are dropped.
split_chunk_drop_rest(chunk_size, o) ==
    IF ~o.some THEN [out |-> None, rest |-> None]
    ELSE IF chunk_size < Len(o.val)
    THEN [out |-> Some(Take(o.val, chunk_size)), rest |-> None]
    ELSE [out |-> o, rest |-> None]
\* One component in PayloadChunks::next: split_to(chunk_size) while more than
\* chunk_size bytes remain, otherwise take() the whole component.
split_chunk(chunk_size, o) ==
    IF ~o.some THEN [out |-> None, rest |-> None]
    ELSE IF chunk_size < Len(o.val)
    THEN [out |-> Some(Take(o.val, chunk_size)),
          rest |-> Some(Drop(o.val, chunk_size))]
    ELSE [out |-> o, rest |-> None]

\* PayloadChunks::next: the item returned and the iterator afterwards.
PayloadChunks_next(it) ==
    IF ~it.metadata.some /\ ~it.data.some
    THEN [item |-> None, it |-> it]
    ELSE LET m == split_chunk(it.chunk_size, it.metadata)
             d == split_chunk(it.chunk_size, it.data)
         IN  [item |-> [some |-> TRUE, val |-> Payload_new(m.out, d.out)],
              it |-> [it EXCEPT !.metadata = m.rest, !.data = d.rest]]

\* Byte strings of up to MaxBlob bytes, all different, counted up from b.
Ramp(b, n) == [i \in 1 .. n |-> b + i]
OptRamps(b) == {None} \cup {Some(Ramp(b, n)) : n \in 0 .. MaxBlob}
ChunkPayloads == {Payload_new(m, d) : m \in OptRamps(100), d \in OptRamps(200)}
ChunkSizes == 1 .. MaxChunkSize
MaxNexts == MaxBlob + 2

InitChunks ==
    /\ role = "none" /\ start = 0 /\ counter = 0 /\ store = {}
    /\ returned = <<>>
    /\ pc = NoThreads /\ sid = NoThreads /\ got = NoThreads /\ attempts = 0
    /\ CodecIdle
    /\ SocketIdle
    /\ original \in ChunkPayloads
    /\ \E chunk_size \in ChunkSizes : chunks = Payload_chunks(original, chunk_size)
    /\ yielded = <<>>
    /\ MachineIdle
    /\ CounterIdle

\* One call of next() on the iterator.
ChunksNext ==
    /\ Len(yielded) < MaxNexts
    /\ LET r == PayloadChunks_next(chunks)
       IN  /\ chunks' = r.it
           /\ yielded' = Append(yielded, r.item)
    /\ UNCHANGED original
    /\ UNCHANGED allocVars
    /\ UNCHANGED concVars
    /\ UNCHANGED codecVars
    /\ UNCHANGED socketVars
    /\ UNCHANGED machineVars
    /\ UNCHANGED counterVars

NextChunks == ChunksNext

SpecChunks == InitChunks /\ [][NextChunks]_vars

\* The iterator has returned None.
Exhausted == \E i \in 1 .. Len(yielded) : ~yielded[i].some
\* The payloads yielded so far.
Items == SelectSeq(yielded, LAMBDA y : y.some)
RECURSIVE ConcatMetadata(_)
ConcatMetadata(ys) ==
    IF ys = <<>> THEN <<>>
    ELSE OptBytes(Head(ys).val.metadata) \o ConcatMetadata(Tail(ys))
RECURSIVE ConcatData(_)
ConcatData(ys) ==
    IF ys = <<>> THEN <<>>
    ELSE OptBytes(Head(ys).val.data) \o ConcatData(Tail(ys))
\* ceil(a / b) on integers.
Ceil(a, b) == IF a % b = 0 THEN a \div b ELSE (a \div b) + 1

\* C17: the number of payloads the chunks(mtu) iterator yields equals
\* ceil(max(len(metadata), len(data)) / mtu), and equals the value that
\* PayloadChunks::len() reports before iteration; absent and empty
\* components both count as length 0.
C17_ChunkCount ==
    Exhausted =>
        /\ Len(Items)
             = Ceil(Max(OptLen(original.metadata), OptLen(original.data)),
                    chunks.chunk_size)
        /\ Len(Items)
             = PayloadChunks_len(Payload_chunks(original, chunks.chunk_size))

\* C18: concatenating the metadata of the chunks in order gives the original
\* metadata and concatenating their data gives the original data; each chunk
\* carries at most mtu bytes of metadata and at most mtu bytes of data; once
\* the iterator has returned None it keeps returning None.
C18_ChunksConcatenate ==
    /\ Exhausted =>
           /\ ConcatMetadata(Items) = OptBytes(original.metadata)
           /\ ConcatData(Items) = OptBytes(original.data)
    /\ \A i \in 1 .. Len(yielded) :
           /\ yielded[i].some =>
                  /\ OptLen(yielded[i].val.metadata) <= chunks.chunk_size
                  /\ OptLen(yielded[i].val.data) <= chunks.chunk_size
           /\ ~yielded[i].some =>
                  \A j \in i .. Len(yielded) : ~yielded[j].some

\* A payload of 3 metadata bytes and 2 data bytes has been iterated in chunks
\* of 2 to its end, and next() has been called twice more.
C18_Witness ==
    /\ chunks.chunk_size = 2
    /\ OptLen(original.metadata) = 3 /\ OptLen(original.data) = 2
    /\ Len(yielded) = 4 /\ yielded[2].some
    /\ ~yielded[3].some /\ ~yielded[4].some
    /\ ~yielded[2].val.data.some

(***************************************************************************)
(* connection/socket.rs: RSocketMachine::fire_and_forget (SpecSocket).     *)
(***************************************************************************)
\* A stream ID returned by next_stream_id, as the two 16-bit words of a u32.
U32Words(n) == <<n \div 65536, n % 65536>>

\* chunks.enumerate(): the payloads the iterator yields until it returns None.
RECURSIVE ChunksCollect(_)
ChunksCollect(it) ==
    LET r == PayloadChunks_next(it)
    IN  IF r.item.some THEN <<r.item.val>> \o ChunksCollect(r.it) ELSE <<>>

\* A mutant: every fragment is sent under an ID of its own.
fire_and_forget_frames_id_per_fragment(stream_id, chunk_size_opt, payload) ==
    IF chunk_size_opt.some
    THEN LET it == Payload_chunks(payload, chunk_size_opt.val)
             chunks_len == PayloadChunks_len(it)
             chunked == ChunksCollect(it)
         IN  [i \in 1 .. Len(chunked) |->
                 RequestFnfFrame_new(<<stream_id[1], stream_id[2] + 2 * (i - 1)>>,
                                     i # chunks_len, chunked[i])]
    ELSE <<RequestFnfFrame_new(stream_id, FALSE, payload)>>
\* The frames fire_and_forget hands to connection.send_and_forget, in order.
fire_and_forget_frames(stream_id, chunk_size_opt, payload) ==
    IF chunk_size_opt.some
    THEN LET it == Payload_chunks(payload, chunk_size_opt.val)
             chunks_len == PayloadChunks_len(it)
             chunked == ChunksCollect(it)
         IN  [i \in 1 .. Len(chunked) |->
                 RequestFnfFrame_new(stream_id, i # chunks_len, chunked[i])]
    ELSE <<RequestFnfFrame_new(stream_id, FALSE, payload)>>

\* RSocketMachine::new leaves chunk_payload at None and the receivers empty;
\* a configured chunk size is a value Some(n) of the field.
ChunkPayloadVals ==
    {[some |-> FALSE, val |-> 0]} \cup {[some |-> TRUE, val |-> n] : n \in ChunkSizes}

InitSocket ==
    /\ role \in {"client", "server"}
    /\ start = (IF role = "client" THEN new_for_client ELSE new_for_server)
    /\ counter = start
    /\ store = {}
    /\ returned = <<>>
    /\ pc = NoThreads /\ sid = NoThreads /\ got = NoThreads /\ attempts = 0
    /\ CodecIdle
    /\ ChunksIdle
    /\ chunk_payload \in ChunkPayloadVals
    /\ sent = <<>>
    /\ call = [made |-> FALSE]
    /\ MachineIdle
    /\ CounterIdle

\* One call of fire_and_forget, from entry to return.  The connection takes
\* the first n frames; when it refuses a frame the call returns the error at
\* once and the frames after it are not sent.
FireAndForget ==
    /\ Len(returned) < MaxSends
    /\ \E payload \in ChunkPayloads :
        LET r == next_stream_id(counter, store)
            frames == fire_and_forget_frames(U32Words(r.sid), chunk_payload, payload)
        IN  /\ counter' = r.counter
            /\ returned' = Append(returned, r.sid)
            /\ \E n \in 0 .. Len(frames) :
                   /\ sent' = SubSeq(frames, 1, n)
                   /\ call' = [made |-> TRUE, op |-> "fire_and_forget",
                               payload |-> payload,
                               stream_id |-> U32Words(r.sid),
                               ok |-> (n = Len(frames))]
    /\ UNCHANGED <<role, start, store, chunk_payload>>
    /\ UNCHANGED concVars
    /\ UNCHANGED codecVars
    /\ UNCHANGED chunkVars
    /\ UNCHANGED machineVars
    /\ UNCHANGED counterVars

\* One call of metadata_push: the frame is handed to connection.send.
MetadataPush ==
    /\ \E metadata \in BlobsOf(109) :
           /\ sent' = <<MetadataPushFrame_new(metadata)>>
           /\ call' = [made |-> TRUE, op |-> "metadata_push", metadata |-> metadata]
    /\ UNCHANGED chunk_payload
    /\ UNCHANGED allocVars
    /\ UNCHANGED concVars
    /\ UNCHANGED codecVars
    /\ UNCHANGED chunkVars
    /\ UNCHANGED machineVars
    /\ UNCHANGED counterVars

NextSocket ==
    \/ FireAndForget
    \/ MetadataPush

SpecSocket == InitSocket /\ [][NextSocket]_vars

\* fire_and_forget has returned Ok(()) on a machine with a chunk size.
ChunkedCallDone ==
    call.made /\ call.op = "fire_and_forget" /\ call.ok /\ chunk_payload.some

C29_OneIdPerCall ==
    [][ /\ (call' # call /\ call'.op = "fire_and_forget") =>
            /\ Len(returned') = Len(returned) + 1
            /\ counter' = AdvancedBy(counter, 1)
            /\ \A i \in 1 .. Len(sent') :
                   sent'[i].stream_id = U32Words(returned'[Len(returned')])
            /\ store' = store /\ subscriptions' = subscriptions
        /\ (call' # call /\ call'.op = "metadata_push") =>
            /\ returned' = returned /\ counter' = counter
            /\ Len(sent') = 1 /\ sent'[1].type = "METADATA_PUSH"
            /\ Take(Frame_encode(sent'[1]), 4) = <<0, 0, 0, 0>>
            /\ store' = store /\ subscriptions' = subscriptions ]_vars

\* Two calls of fire_and_forget have returned, the second after sending more
\* than one fragment, and the counter has advanced twice.
C29_Witness ==
    /\ call.made /\ call.op = "fire_and_forget" /\ call.ok
    /\ Len(sent) >= 2
    /\ Len(returned) = 2
    /\ counter = AdvancedBy(start, 2)

(***************************************************************************)
(* Claims about SETUP and ERROR frames (Spec).                             *)
(***************************************************************************)
\* C25: every SETUP frame the SetupFrameBuilder builds has the RESUME flag
\* exactly when it has a resume token, so decode reads back the token field
\* that encode wrote: the decoded frame has the same token as the built one.
C25_ResumeFlagIffToken ==
    (phase # "idle" /\ origin # "peer" /\ frame.type = "SETUP") =>
        /\ FlagsContains(frame.flags, RESUME) <=> frame.resume_token.some
        /\ (phase = "decoded" /\ origin = "encode") =>
               /\ result.ok
               /\ result.frame.resume_token = frame.resume_token

\* The offsets in an encoded SETUP frame of the two 1-byte MIME length prefixes.
MetadataMimeLenAt(f) ==
    18 + (IF f.resume_token.some THEN 2 + Len(f.resume_token.val) ELSE 0) + 1
DataMimeLenAt(f) == MetadataMimeLenAt(f) + Len(f.metadata_mimetype) + 1

\* C26: for every MIME type the SETUP builder's setters accept (0 to 256
\* bytes), the 1-byte length prefix that encode writes is the MIME type's byte
\* length, and decoding the encoded frame yields the same MIME types.
C26_MimeLengthPrefix ==
    (phase # "idle" /\ origin = "encode" /\ frame.type = "SETUP"
        /\ FlagMatchesToken(frame)) =>
        /\ wire[MetadataMimeLenAt(frame)] = Len(frame.metadata_mimetype)
        /\ wire[DataMimeLenAt(frame)] = Len(frame.data_mimetype)
        /\ (phase = "decoded") =>
               /\ result.ok
               /\ result.frame.metadata_mimetype = frame.metadata_mimetype
               /\ result.frame.data_mimetype = frame.data_mimetype

\* The arguments of ErrorFrame::new that produce the frame at hand: a non-zero
\* stream ID and an application error code.
ApplicationErrorArgs ==
    {a \in StreamIds \X ApplicationErrorCodes \X DataVals :
        /\ ~IsZero(a[1])
        /\ ErrorFrame_new(a[1], a[2], a[3]) = frame}

\* C27: an ERROR frame built by ErrorFrame::new with a non-zero stream ID and an
\* application error code in [0x301, 0xFFFFFFFE] reports exactly that code,
\* encode writes it unchanged as the 4-byte error code, and the encoded frame
\* decodes back to the same code.
C27_ApplicationErrorCodeKept ==
    (phase # "idle" /\ origin # "peer" /\ frame.type = "ERROR") =>
        \A a \in ApplicationErrorArgs :
            /\ frame.code = a[2]
            /\ (origin = "encode") => SubSeq(wire, 7, 10) = put_words(a[2])
            /\ (phase = "decoded" /\ origin = "encode") =>
                   (result.ok /\ result.frame.code = a[2])

(***************************************************************************)
(* connection/counter.rs: RequestCounter (SpecCounter).  Threads share one *)
(* counter; every operation is one atomic read-modify-write of the         *)
(* AtomicI32, so a step of the model is one call.                          *)
(***************************************************************************)
\* `x as i32` of a u32 given as its two 16-bit words.
u32_as_i32(ws) ==
    IF ws[1] < 32768
    THEN ws[1] * 65536 + ws[2]
    ELSE ((ws[1] - 32768) * 65536 + ws[2]) + I32_MIN

\* AtomicI32::fetch_add / fetch_sub: the new value, wrapping around on overflow.
wrapping_add_i32(c, k) ==
    IF k >= 0 /\ c > I32_MAX - k
    THEN I32_MIN + ((c - (I32_MAX - k)) - 1)
    ELSE IF k < 0 /\ c < I32_MIN - k
    THEN I32_MAX - (((I32_MIN - k) - c) - 1)
    ELSE c + k

\* RequestCounter::new: (n & COUNTER_MASK) as i32.
RequestCounter_new(n) == u32_as_i32(MaskTopBit(n))
\* RequestCounter::dec: fetch_sub(1) returns the previous count.
RequestCounter_dec(c) == [ret |-> c, count |-> wrapping_add_i32(c, -1)]
\* RequestCounter::add: fetch_add(n as i32).
RequestCounter_add(c, n) == wrapping_add_i32(c, u32_as_i32(n))
RequestCounter_load(c) == c

\* Arguments of new: zero, small counts, the largest count, and a value above
\* COUNTER_MASK.  Arguments of add: request_n values, 0 < n <= 2^31 - 1.
NewVals == {<<0, 0>>, <<0, 1>>, <<0, 42>>, <<32767, 65535>>, <<32768, 1>>}
AddVals == {<<0, 1>>, <<32767, 65535>>}

InitCounter ==
    /\ role = "none" /\ start = 0 /\ counter = 0 /\ store = {}
    /\ returned = <<>>
    /\ pc = NoThreads /\ sid = NoThreads /\ got = NoThreads /\ attempts = 0
    /\ CodecIdle
    /\ ChunksIdle
    /\ SocketIdle
    /\ MachineIdle
    /\ initial \in NewVals
    /\ count = RequestCounter_new(initial)
    /\ history = <<>>

CounterDec(t) ==
    /\ Len(history) < MaxCounterOps
    /\ LET r == RequestCounter_dec(count)
       IN  /\ count' = r.count
           /\ history' = Append(history, [thread |-> t, op |-> "dec", n |-> <<0, 0>>,
                                          ret |-> r.ret, after |-> r.count])
    /\ UNCHANGED initial
    /\ UNCHANGED allocVars
    /\ UNCHANGED concVars
    /\ UNCHANGED codecVars
    /\ UNCHANGED chunkVars
    /\ UNCHANGED socketVars
    /\ UNCHANGED machineVars

CounterAdd(t, n) ==
    /\ Len(history) < MaxCounterOps
    /\ count' = RequestCounter_add(count, n)
    /\ history' = Append(history, [thread |-> t, op |-> "add", n |-> n,
                                   ret |-> 0, after |-> count'])
    /\ UNCHANGED initial
    /\ UNCHANGED allocVars
    /\ UNCHANGED concVars
    /\ UNCHANGED codecVars
    /\ UNCHANGED chunkVars
    /\ UNCHANGED socketVars
    /\ UNCHANGED machineVars

NextCounter ==
    \E t \in Threads :
        \/ CounterDec(t)
        \/ \E n \in AddVals : CounterAdd(t, n)

SpecCounter == InitCounter /\ [][NextCounter]_vars

\* An integer too wide for 32 bits, as <<q, r>> with value q * 2^16 + r and
\* 0 <= r < 2^16: the exact value of an i32, and exact sums of them.
ExactOf(c) == <<c \div 65536, c % 65536>>
ExactAdd(e, ws) ==
    <<e[1] + ws[1] + ((e[2] + ws[2]) \div 65536), (e[2] + ws[2]) % 65536>>
ExactDec(e) == IF e[2] = 0 THEN <<e[1] - 1, 65535>> ELSE <<e[1], e[2] - 1>>

\* initial count - d + the sum of the n_i, over the operations of h.
RECURSIVE ExactAfter(_, _)
ExactAfter(e, h) ==
    IF h = <<>> THEN e
    ELSE ExactAfter(IF Head(h).op = "dec" THEN ExactDec(e) ELSE ExactAdd(e, Head(h).n),
                    Tail(h))

\* The count held immediately before the i-th operation.
CountBefore(i) == IF i = 1 THEN RequestCounter_new(initial) ELSE history[i - 1].after

\* C24: RequestCounter is linearizable: each dec returns the count held
\* immediately before its own decrement, two dec calls with no add between
\* them never return the same previous count, and after any interleaving of d
\* dec calls and add(n_i) calls load() is the initial count - d + the sum of
\* the n_i.
C24_CounterLinearizable ==
    /\ \A i \in 1 .. Len(history) :
           history[i].op = "dec" => history[i].ret = CountBefore(i)
    /\ \A i, j \in 1 .. Len(history) :
           (i < j /\ \A k \in i .. j : history[k].op = "dec")
               => history[i].ret # history[j].ret
    /\ ExactOf(RequestCounter_load(count))
           = ExactAfter(ExactOf(RequestCounter_new(initial)), history)

\* C30: the count of a RequestCounter stays within [0, 2^31 - 1] after any
\* sequence of dec and add(n) calls with 0 < n <= 2^31 - 1.
C30_CountInRange ==
    RequestCounter_load(count) \in 0 .. I32_MAX

(***************************************************************************)
(* connection/socket.rs: the tasks RSocketMachine::new spawns, the status  *)
(* listener and the keepalive watchdog, and close (SpecMachine).  Time is  *)
(* a clock of ticks; a sleeping task wakes at its deadline or later.       *)
(***************************************************************************)
\* The keys of receivers and of subscriptions.  RSocketMachine::new builds
\* both maps empty; the other values are maps of a machine with streams in
\* flight.
StreamMaps == {<<{}, {}>>, <<{1}, {1}>>, <<{1, 3}, {3}>>}

\* RSocketMachine::new on an established connection: the fields, and the two
\* tasks spawned.
InitMachine ==
    /\ role \in {"client", "server"}
    /\ start = (IF role = "client" THEN new_for_client ELSE new_for_server)
    /\ counter = start
    /\ \E m \in StreamMaps : store = m[1] /\ subscriptions = m[2]
    /\ returned = <<>>
    /\ pc = NoThreads /\ sid = NoThreads /\ got = NoThreads /\ attempts = 0
    /\ CodecIdle
    /\ ChunksIdle
    /\ SocketIdle
    /\ CounterIdle
    /\ keepalive_timeout \in 1 .. MaxTimeout
    /\ now = 0
    /\ keepalive_last_received = now
    /\ watchdog = [pc |-> "spawned", wake |-> 0]
    /\ status = [conn |-> "Connected", seen |-> "Connected"]
    /\ last_keepalive = now
    /\ canceled = {}

\* The clock advances.
Tick ==
    /\ now < MaxTime
    /\ now' = now + 1
    /\ UNCHANGED <<subscriptions, keepalive_timeout, keepalive_last_received,
                   watchdog, status, last_keepalive, canceled>>
    /\ UNCHANGED allocVars
    /\ UNCHANGED concVars
    /\ UNCHANGED codecVars
    /\ UNCHANGED chunkVars
    /\ UNCHANGED socketVars
    /\ UNCHANGED counterVars

\* A KEEPALIVE frame of the peer arrives on the connection.  No code of the
\* machine reads it: no field changes.
KeepaliveArrives ==
    /\ status.conn = "Connected"
    /\ last_keepalive' = now
    /\ UNCHANGED <<subscriptions, keepalive_timeout, keepalive_last_received, now,
                   watchdog, status, canceled>>
    /\ UNCHANGED allocVars
    /\ UNCHANGED concVars
    /\ UNCHANGED codecVars
    /\ UNCHANGED chunkVars
    /\ UNCHANGED socketVars
    /\ UNCHANGED counterVars

\* The watchdog: tokio::time::sleep(keepalive_timeout) begins.
WatchdogSleep ==
    /\ watchdog.pc = "spawned"
    /\ watchdog' = [pc |-> "sleeping", wake |-> now + keepalive_timeout]
    /\ UNCHANGED <<subscriptions, keepalive_timeout, keepalive_last_received, now,
                   status, last_keepalive, canceled>>
    /\ UNCHANGED allocVars
    /\ UNCHANGED concVars
    /\ UNCHANGED codecVars
    /\ UNCHANGED chunkVars
    /\ UNCHANGED socketVars
    /\ UNCHANGED counterVars

\* now - keepalive_last_received > keepalive_timeout
keepalive_expired == now - keepalive_last_received > keepalive_timeout

\* The watchdog wakes and the test fails: the loop repeats.
WatchdogLoop ==
    /\ watchdog.pc = "sleeping" /\ now >= watchdog.wake
    /\ ~keepalive_expired
    /\ watchdog' = [watchdog EXCEPT !.pc = "spawned"]
    /\ UNCHANGED <<subscriptions, keepalive_timeout, keepalive_last_received, now,
                   status, last_keepalive, canceled>>
    /\ UNCHANGED allocVars
    /\ UNCHANGED concVars
    /\ UNCHANGED codecVars
    /\ UNCHANGED chunkVars
    /\ UNCHANGED socketVars
    /\ UNCHANGED counterVars

\* The watchdog wakes and the test holds: handle_connection_error, which logs
\* the error (handle_error) and calls connection.close(); the task ends.
WatchdogTimeout ==
    /\ watchdog.pc = "sleeping" /\ now >= watchdog.wake
    /\ keepalive_expired
    /\ watchdog' = [watchdog EXCEPT !.pc = "done"]
    /\ status' = [status EXCEPT !.conn = IF @ = "Connected" THEN "Closed" ELSE @]
    /\ sent' = <<>>
    /\ call' = [made |-> TRUE, op |-> "handle_connection_error"]
    /\ UNCHANGED <<subscriptions, keepalive_timeout, keepalive_last_received, now,
                   last_keepalive, canceled>>
    /\ UNCHANGED chunk_payload
    /\ UNCHANGED allocVars
    /\ UNCHANGED concVars
    /\ UNCHANGED codecVars
    /\ UNCHANGED chunkVars
    /\ UNCHANGED counterVars

\* The transport fails: the status of the connection becomes Error.
TransportError ==
    /\ status.conn = "Connected"
    /\ status' = [status EXCEPT !.conn = "Error"]
    /\ UNCHANGED <<subscriptions, keepalive_timeout, keepalive_last_received, now,
                   watchdog, last_keepalive, canceled>>
    /\ UNCHANGED allocVars
    /\ UNCHANGED concVars
    /\ UNCHANGED codecVars
    /\ UNCHANGED chunkVars
    /\ UNCHANGED socketVars
    /\ UNCHANGED counterVars

\* RSocketMachine::close: connection.close().
Close ==
    /\ status.conn = "Connected"
    /\ status' = [status EXCEPT !.conn = "Closed"]
    /\ UNCHANGED <<subscriptions, keepalive_timeout, keepalive_last_received, now,
                   watchdog, last_keepalive, canceled>>
    /\ UNCHANGED allocVars
    /\ UNCHANGED concVars
    /\ UNCHANGED codecVars
    /\ UNCHANGED chunkVars
    /\ UNCHANGED socketVars
    /\ UNCHANGED counterVars

\* The status listener takes the new status from connection_status():
\* Closed runs handle_transport_close, Error(err) runs handle_error.  Both
\* log the error and nothing else.  The call records the streams the maps
\* held when the handler ran.
StatusListener ==
    /\ status.seen # status.conn
    /\ status' = [status EXCEPT !.seen = status.conn]
    /\ sent' = <<>>
    /\ call' = [made |-> TRUE,
                op |-> (IF status.conn = "Closed"
                        THEN "handle_transport_close" ELSE "handle_error"),
                streams |-> store \cup subscriptions]
    /\ UNCHANGED <<subscriptions, keepalive_timeout, keepalive_last_received, now,
                   watchdog, last_keepalive, canceled>>
    /\ UNCHANGED chunk_payload
    /\ UNCHANGED allocVars
    /\ UNCHANGED concVars
    /\ UNCHANGED codecVars
    /\ UNCHANGED chunkVars
    /\ UNCHANGED counterVars

NextMachine ==
    \/ Tick
    \/ KeepaliveArrives
    \/ WatchdogSleep
    \/ WatchdogLoop
    \/ WatchdogTimeout
    \/ TransportError
    \/ Close
    \/ StatusListener

SpecMachine == InitMachine /\ [][NextMachine]_vars

\* The watchdog has just run handle_connection_error.
KeepaliveTimedOut == call.made /\ call.op = "handle_connection_error"

\* C21: when no KEEPALIVE has been received for longer than keepalive_timeout,
\* the engine emits an ERROR frame with code CONNECTION_ERROR on stream 0 and
\* the connection is closed.
C21_TimeoutEmitsConnectionError ==
    KeepaliveTimedOut =>
        /\ status.conn \in {"Closed", "Error"}
        /\ Len(sent) = 1
        /\ sent[1].type = "ERROR"
        /\ sent[1].code = CONNECTION_ERROR
        /\ IsZero(sent[1].stream_id)

\* The status listener has just handled Closed or Error.
CloseHandled == call.made /\ call.op \in {"handle_transport_close", "handle_error"}

C28_NoTimeoutWhileKeepalivesArrive ==
    KeepaliveTimedOut => now - last_keepalive > keepalive_timeout
====
